---- MODULE Spec2Model ----
(***************************************************************************)
(* A model of the control plane of reagent: the message model and the      *)
(* JSONL-backed Context store (context/__init__.py), context management    *)
(* (context/management.py), the tool pipeline and the step primitive       *)
(* (tool/base.py, tool/registry.py, llm/streaming.py), the agent loop      *)
(* (agent/loop.py) and the event wire (session/wire.py).                   *)
(*                                                                         *)
(* Strings of the program are sequences of characters (<<>> is "").  A     *)
(* fixed literal phrase of the source is one symbolic character.  A JSON   *)
(* object is a function from its keys; json.dumps followed by json.loads   *)
(* is the identity on such objects, so a line of the log file is the       *)
(* object itself.  The conversions between Message and JSON object are     *)
(* modelled by what they do.                                               *)
(***************************************************************************)
EXTENDS Integers, Sequences, FiniteSets, TLC

VARIABLES
    ctx,        \* the Context object: messages, checkpoints, _checkpoint_counter
    disk,       \* the file at Context.path: exists, lines
    snap,       \* history: checkpoint id -> the message list when it was created
    lastOp,     \* history: the last Context operation and its argument
    budget,     \* how many more appends, checkpoints and compactions are explored
    wire,       \* the Wire object: _subscribers, _closed
    queues,     \* every asyncio.Queue that subscribe() created: id -> items
    taken,      \* history: what each queue's consumer has got from it
    due,        \* history: per queue, the events passed to send while it was
                \* subscribed and close() had not been called
    sends,      \* history: how many calls of send, how many after close()
    closes,     \* history: how many times close() has been called
    present,    \* history: the queues subscribed when close() was first called
    agent,      \* agent_loop's arguments: max_steps, compact_fn
    loop,       \* agent_loop's position: pc, step_no, outcome, exc
    cur,        \* the step in progress: message, calls, tasks, finishing order
    tally,      \* history of the loop: calls of step, grows, reverts, ...
    orphans,    \* tool tasks of aborted steps that are still running
    growth,     \* the shielded Context.grow task of the step, while in flight
    manager,    \* the PTYManager object: the keys of _sessions, in dict order
    ptys,       \* every PTYSession that was started: id -> status, processes
    ptyOp,      \* history: the last call on the manager
    ptyBudget,  \* how many more spawns, kills, cleanups, forks, exits are explored
    buffer,     \* a RollingBuffer: _lines, _raw_lines, _total_lines, max_lines
    written,    \* history: the lines appended since the buffer was made or cleared
    bufOp,      \* history: the last call on the buffer and what it returned
    bufBudget,  \* how many more appends and clears are explored
    call,       \* a send_and_match call: pc, before, result, the lines since
    waiter,     \* a consumer's calls of wait_for_data: pc, result, what it saw
    truncIn,    \* a tool output and the limits truncate_output is called with
    truncOut,   \* what truncate_output returned for it
    attempts,   \* _acompletion_with_retry: the calls under way and their attempts
    model,      \* the shared BinaryModel: observations, hypotheses, findings
    modelOp,    \* history: the last call on the model and what it returned
    modelBudget, \* how many more adds and promotions are explored
    contexts,   \* every Context object of a session: reference -> messages, ...
    orch,       \* the top-level run: the orchestrator's agent_loop and its caller
    subs        \* every _run_subagent call: its loop, its context, its task

ctxVars == <<ctx, disk, snap, lastOp, budget>>

wireVars == <<wire, queues, taken, due, sends, closes, present>>

loopVars == <<agent, loop, cur, tally, orphans, growth>>

ptyVars == <<manager, ptys, ptyOp, ptyBudget>>

bufVars == <<buffer, written, bufOp, bufBudget, call, waiter>>

truncVars == <<truncIn, truncOut>>

retryVars == <<attempts>>

modelVars == <<model, modelOp, modelBudget>>

orchVars == <<contexts, orch, subs>>

auxVars == <<bufVars, truncVars, retryVars, modelVars, orchVars>>

vars == <<ctxVars, wireVars, loopVars, ptyVars, auxVars>>

(***************************************************************************)
(* Bounds of the model.                                                    *)
(***************************************************************************)
MaxAppends == 4
MaxCheckpoints == 2
MgmtMaxAppends == 1

IdsMaxAppends == 2

IdsMaxCheckpoints == 3
MgmtMaxCheckpoints == 1
MaxCompactions == 1
MaxCheckpointId == 3
MaxSubscribers == 2
MaxSends == 2
MaxApiSends == 1
MaxGets == 2
MaxCloses == 2
MaxSteps == 2
FairMaxSteps == 1
CancelMaxSteps == 1

MaxSpawns == 3

MaxKills == 1

MaxCleanups == 2

MaxForks == 1

MaxExits == 1
SessionMaxSpawns == 2
SessionMaxExits == 2
MaxBufLines == 2
MaxBufAppends == 2
MaxBufTexts == 1
MatchMaxAppends == 3
WaitMaxAppends == 2
MaxWaits == 3
MaxTextLen == 5
MaxTruncLines == 2
MaxTruncBytes == 3
MaxAttempts == 5
MaxModelAdds == 3
OrchMaxSteps == 1
SubMaxSteps == 1
MaxSubagents == 2
MaxPromotes == 2

ExtraSpawns == 1

(***************************************************************************)
(* Generic helpers.                                                        *)
(***************************************************************************)
EmptyDict == [k \in {} |-> 0]

Get(d, k, default) == IF k \in DOMAIN d THEN d[k] ELSE default

RECURSIVE Flatten(_)
Flatten(ss) == IF ss = <<>> THEN <<>> ELSE Head(ss) \o Flatten(Tail(ss))

SelectParts(parts, ty) == SelectSeq(parts, LAMBDA p : p.type = ty)

\* a number formatted into a text: its digits, as one symbol
str(n) == ToString(n)

Prefix(s, n) == SubSeq(s, 1, IF n < Len(s) THEN n ELSE Len(s))

Suffix(s, n) == SubSeq(s, (IF n < Len(s) THEN Len(s) - n ELSE 0) + 1, Len(s))

(***************************************************************************)
(* llm/message.py: content parts and messages.                             *)
(***************************************************************************)
TextPart(text) == [type |-> "text", text |-> text]

ToolCallPart(id, name, arguments) ==
    [type |-> "tool_call", id |-> id, name |-> name, arguments |-> arguments]

ToolResultPart(tool_call_id, content, is_error) ==
    [type |-> "tool_result", tool_call_id |-> tool_call_id,
     content |-> content, is_error |-> is_error]

ThinkingPart(thinking, signature) ==
    [type |-> "thinking", thinking |-> thinking, signature |-> signature]

Message(role, parts) == [role |-> role, parts |-> parts]

MessageSystem(text) == Message("system", <<TextPart(text)>>)

MessageUser(text) == Message("user", <<TextPart(text)>>)

MessageToolResult(tool_call_id, content, is_error) ==
    Message("tool", <<ToolResultPart(tool_call_id, content, is_error)>>)

\* Message.text: the concatenated text parts
\* the text of a JSON object, and a text that is not JSON
JsonText(obj) == <<[json |-> "object", value |-> obj]>>

MalformedJson == <<[json |-> "malformed"]>>

MessageText(msg) ==
    Flatten([i \in 1..Len(SelectParts(msg.parts, "text")) |->
                SelectParts(msg.parts, "text")[i].text])

(***************************************************************************)
(* context/__init__.py: serialisation of a message to a JSONL object and   *)
(* back.                                                                   *)
(***************************************************************************)
_message_to_dict(msg) ==
    LET text_parts == SelectParts(msg.parts, "text")
        tc_parts == SelectParts(msg.parts, "tool_call")
        tr_parts == SelectParts(msg.parts, "tool_result")
        thinking_parts == SelectParts(msg.parts, "thinking")
        sigs == SelectSeq(thinking_parts, LAMBDA p : p.signature # <<>>)
        d0 == "role" :> msg.role
        d1 == IF text_parts # <<>>
              THEN ("content" :>
                      Flatten([i \in 1..Len(text_parts) |-> text_parts[i].text]))
              ELSE EmptyDict
        d2 == IF tc_parts # <<>>
              THEN ("tool_calls" :>
                      [i \in 1..Len(tc_parts) |->
                          [id |-> tc_parts[i].id, name |-> tc_parts[i].name,
                           arguments |-> tc_parts[i].arguments]])
              ELSE EmptyDict
        \* a later assignment of "content" overwrites an earlier one
        d3 == IF tr_parts # <<>>
              THEN ("tool_call_id" :> tr_parts[1].tool_call_id)
                   @@ ("content" :> tr_parts[1].content)
                   @@ ("is_error" :> tr_parts[1].is_error)
              ELSE EmptyDict
        d4 == IF thinking_parts # <<>>
              THEN ("thinking" :>
                      Flatten([i \in 1..Len(thinking_parts) |->
                                  thinking_parts[i].thinking]))
                   @@ (IF sigs # <<>>
                       THEN "thinking_signature" :> sigs[1].signature
                       ELSE EmptyDict)
              ELSE EmptyDict
    IN  d4 @@ d3 @@ d2 @@ d1 @@ d0

_dict_to_message(data) ==
    LET role == data["role"]
        thinking == IF Get(data, "thinking", <<>>) # <<>>
                    THEN <<ThinkingPart(data["thinking"],
                                        Get(data, "thinking_signature", <<>>))>>
                    ELSE <<>>
        content == IF Get(data, "content", <<>>) # <<>>
                   THEN <<TextPart(data["content"])>>
                   ELSE <<>>
        tcs == Get(data, "tool_calls", <<>>)
        calls == [i \in 1..Len(tcs) |->
                    ToolCallPart(tcs[i].id, tcs[i].name, tcs[i].arguments)]
    IN  IF role = "tool"
        THEN Message(role, <<ToolResultPart(Get(data, "tool_call_id", <<>>),
                                            Get(data, "content", <<>>),
                                            Get(data, "is_error", FALSE))>>)
        ELSE Message(role, thinking \o content \o calls)

CheckpointLine(cid) == ("_type" :> "checkpoint") @@ ("id" :> cid)

(***************************************************************************)
(* context/__init__.py: the Context and its file.  An operation on the     *)
(* pair (context, file) yields the pair after it.                          *)
(***************************************************************************)
NewContext == [messages |-> <<>>, checkpoints |-> EmptyDict, counter |-> 0]

NoFile == [exists |-> FALSE, lines |-> <<>>]

CD(c, d) == [c |-> c, d |-> d]

\* aiofiles.open(path, "a"): creates the file when it is missing
_append_jsonl(d, data) == [exists |-> TRUE, lines |-> Append(d.lines, data)]

\* aiofiles.open(path, "w"): messages first, then every checkpoint marker
_rewrite_jsonl(c, d) ==
    LET ids == DOMAIN c.checkpoints
        sorted == CHOOSE s \in [1..Cardinality(ids) -> ids] :
                     \A i, j \in 1..Cardinality(ids) : i < j => s[i] < s[j]
    IN  [exists |-> TRUE,
         lines |-> [i \in 1..Len(c.messages) |-> _message_to_dict(c.messages[i])]
                   \o [i \in 1..Cardinality(ids) |-> CheckpointLine(sorted[i])]]

append(c, d, message) ==
    CD([c EXCEPT !.messages = Append(@, message)],
       _append_jsonl(d, _message_to_dict(message)))

append_system(c, d, text) == append(c, d, MessageSystem(text))

checkpoint(c, d) ==
    LET cid == c.counter
    IN  CD([c EXCEPT !.counter = @ + 1,
                     !.checkpoints = (cid :> Len(c.messages)) @@ @],
           _append_jsonl(d, CheckpointLine(cid)))

\* a revert that also winds the counter back to the checkpoint it restores
revert_to_rewinding_counter(c, d, checkpoint_id) ==
    LET idx == c.checkpoints[checkpoint_id]
        c1 == [c EXCEPT !.messages = Prefix(@, idx),
                        !.checkpoints =
                            [k \in {k \in DOMAIN @ : k <= checkpoint_id} |-> @[k]],
                        !.counter = checkpoint_id + 1]
    IN  CD(c1, _rewrite_jsonl(c1, NoFile))

\* a revert that also drops the checkpoint it reverts to
revert_to_dropping_target(c, d, checkpoint_id) ==
    LET idx == c.checkpoints[checkpoint_id]
        c1 == [c EXCEPT !.messages = Prefix(@, idx),
                        !.checkpoints =
                            [k \in {k \in DOMAIN @ : k < checkpoint_id} |-> @[k]]]
    IN  CD(c1, _rewrite_jsonl(c1, NoFile))

\* defined for checkpoint_id \in DOMAIN c.checkpoints; otherwise ValueError
revert_to(c, d, checkpoint_id) ==
    LET idx == c.checkpoints[checkpoint_id]
        c1 == [c EXCEPT !.messages = Prefix(@, idx),
                        !.checkpoints =
                            [k \in {k \in DOMAIN @ : k <= checkpoint_id} |-> @[k]]]
    IN  \* the old file is renamed to a backup, the new one written from c1
        CD(c1, _rewrite_jsonl(c1, NoFile))

RECURSIVE grow_results(_, _, _)
grow_results(c, d, tool_results) ==
    IF tool_results = <<>> THEN CD(c, d)
    ELSE LET r == append(c, d, Head(tool_results))
         IN  grow_results(r.c, r.d, Tail(tool_results))

grow(c, d, assistant_msg, tool_results) ==
    LET r == append(c, d, assistant_msg)
    IN  grow_results(r.c, r.d, tool_results)

rewrite(c, d) == CD(c, _rewrite_jsonl(c, d))

RECURSIVE restore_lines(_, _)
restore_lines(c, lines) ==
    IF lines = <<>> THEN c
    ELSE LET data == Head(lines)
             c1 == IF Get(data, "_type", "") = "checkpoint"
                   THEN [c EXCEPT
                           !.checkpoints = (data["id"] :> Len(c.messages)) @@
                               [k \in DOMAIN @ \ {data["id"]} |-> @[k]],
                           !.counter = IF @ > data["id"] + 1 THEN @
                                       ELSE data["id"] + 1]
                   ELSE IF Get(data, "_type", "") = "usage" THEN c
                   ELSE IF "role" \in DOMAIN data
                   THEN [c EXCEPT !.messages = Append(@, _dict_to_message(data))]
                   ELSE c
         IN  restore_lines(c1, Tail(lines))

restore(d) == IF ~d.exists THEN NewContext ELSE restore_lines(NewContext, d.lines)

(***************************************************************************)
(* context/management.py: pruning and compaction.                          *)
(***************************************************************************)
PRUNE_THRESHOLD_CHARS == 500

PRUNE_PROTECT_RECENT == 10

KEEP_RECENT == 6

\* the parts of one message after pruning
prune_parts(parts) ==
    LET kept == SelectSeq(parts, LAMBDA p : p.type # "thinking")
    IN  [i \in 1..Len(kept) |->
            IF kept[i].type = "tool_result"
               /\ Len(kept[i].content) > PRUNE_THRESHOLD_CHARS
            THEN ToolResultPart(kept[i].tool_call_id,
                                <<"[pruned: ", str(Len(kept[i].content)), " chars]">>,
                                kept[i].is_error)
            ELSE kept[i]]

\* a pruning that does not protect the recent messages
prune_context_unprotected(c) ==
    [c EXCEPT !.messages =
        [i \in 1..Len(c.messages) |->
            IF c.messages[i].role \in {"tool", "assistant"}
            THEN Message(c.messages[i].role, prune_parts(c.messages[i].parts))
            ELSE c.messages[i]]]

\* the context after prune_context; the file is not written
prune_context(c) ==
    LET cutoff == Len(c.messages) - PRUNE_PROTECT_RECENT
    IN  [c EXCEPT !.messages =
            [i \in 1..Len(c.messages) |->
                IF i - 1 < cutoff /\ c.messages[i].role \in {"tool", "assistant"}
                THEN Message(c.messages[i].role, prune_parts(c.messages[i].parts))
                ELSE c.messages[i]]]

\* the lines _render_messages_for_summary joins: one per text, tool_call and
\* tool_result part (thinking parts are skipped)
_render_messages_for_summary(messages) ==
    Flatten([i \in 1..Len(messages) |->
        LET ps == SelectSeq(messages[i].parts, LAMBDA p : p.type # "thinking")
        IN  [j \in 1..Len(ps) |-> <<messages[i].role, ps[j].type>>]])

\* a compaction that replaces the messages and leaves the file as it was
compact_context_without_rewrite(c, d, summary) ==
    LET n == Len(c.messages)
        summary_msg == MessageSystem(
            <<"[Context compacted - summary of prior ", str(n - KEEP_RECENT),
              " messages]">> \o summary)
        c1 == [c EXCEPT !.messages = <<summary_msg>> \o Suffix(@, KEEP_RECENT)]
    IN  IF n <= KEEP_RECENT \/ summary = <<>> THEN CD(c, d) ELSE CD(c1, d)

\* summary: the text the summary provider answers with
compact_context(c, d, summary) ==
    LET n == Len(c.messages)
        old_messages == Prefix(c.messages, n - KEEP_RECENT)
        recent_messages == Suffix(c.messages, KEEP_RECENT)
        summary_msg == MessageSystem(
            <<"[Context compacted - summary of prior ", str(Len(old_messages)),
              " messages]">> \o summary)
        c1 == [c EXCEPT !.messages = <<summary_msg>> \o recent_messages]
    IN  IF n <= KEEP_RECENT THEN CD(c, d)
        ELSE IF _render_messages_for_summary(old_messages) = <<>> THEN CD(c, d)
        ELSE IF summary = <<>> THEN CD(c, d)
        ELSE CD(c1, _rewrite_jsonl(c1, d))

(***************************************************************************)
(* The Context store driven by its callers: any sequence of its            *)
(* operations, of pruning and of compaction.                               *)
(***************************************************************************)
LongText == [i \in 1..(PRUNE_THRESHOLD_CHARS + 1) |-> "x"]

AssistantCalling(id) ==
    Message("assistant",
            <<ThinkingPart(<<"t">>, <<"g">>), TextPart(<<"c">>),
              ToolCallPart(id, <<"f">>, JsonText(EmptyDict))>>)

AppendInputs == {MessageUser(<<"a">>)}

GrowInputs ==
    {<<AssistantCalling(<<"1">>), <<MessageToolResult(<<"1">>, <<"r">>, FALSE)>> >>}

Summaries == {<<>>, <<"z">>}

\* a state that the operations reach from a new Context: the goal, a
\* checkpoint, a step with a long tool output, and ten more messages
SeedConversation ==
    <<AssistantCalling(<<"0">>),
      MessageToolResult(<<"0">>, LongText, FALSE)>>
    \o [i \in 1..PRUNE_PROTECT_RECENT |-> MessageUser(<<"a">>)]

SeedGoal == append(NewContext, NoFile, MessageUser(<<"g">>))

SeedCheckpoint == checkpoint(SeedGoal.c, SeedGoal.d)

SeedState == grow_results(SeedCheckpoint.c, SeedCheckpoint.d, SeedConversation)

SeedSnap == 0 :> SeedGoal.c.messages

Op(name, arg, ok) == [op |-> name, arg |-> arg, ok |-> ok]

CtxInit ==
    /\ ctx = NewContext
    /\ disk = NoFile
    /\ snap = EmptyDict
    /\ lastOp = Op("init", 0, TRUE)
    /\ budget = [appends |-> MaxAppends, checkpoints |-> MaxCheckpoints,
                 compactions |-> 0]

\* an empty context with room for several checkpoints
IdsInit ==
    /\ ctx = NewContext
    /\ disk = NoFile
    /\ snap = EmptyDict
    /\ lastOp = Op("init", 0, TRUE)
    /\ budget = [appends |-> IdsMaxAppends, checkpoints |-> IdsMaxCheckpoints,
                 compactions |-> 0]

MgmtInit ==
    /\ ctx = SeedState.c
    /\ disk = SeedState.d
    /\ snap = SeedSnap
    /\ lastOp = Op("init", 0, TRUE)
    /\ budget = [appends |-> MgmtMaxAppends, checkpoints |-> MgmtMaxCheckpoints,
                 compactions |-> MaxCompactions]

CtxAppend ==
    \E m \in AppendInputs :
        /\ budget.appends > 0
        /\ LET r == append(ctx, disk, m) IN ctx' = r.c /\ disk' = r.d
        /\ lastOp' = Op("append", 0, TRUE)
        /\ UNCHANGED <<wireVars, loopVars, ptyVars, auxVars>>
        /\ budget' = [budget EXCEPT !.appends = @ - 1]
        /\ UNCHANGED snap

CtxGrow ==
    \E g \in GrowInputs :
        /\ budget.appends > 0
        /\ LET r == grow(ctx, disk, g[1], g[2]) IN ctx' = r.c /\ disk' = r.d
        /\ lastOp' = Op("grow", 0, TRUE)
        /\ UNCHANGED <<wireVars, loopVars, ptyVars, auxVars>>
        /\ budget' = [budget EXCEPT !.appends = @ - 1]
        /\ UNCHANGED snap

CtxCheckpoint ==
    /\ budget.checkpoints > 0
    /\ LET r == checkpoint(ctx, disk) IN ctx' = r.c /\ disk' = r.d
    /\ snap' = (ctx.counter :> ctx.messages) @@ snap
    /\ lastOp' = Op("checkpoint", ctx.counter, TRUE)
    /\ UNCHANGED <<wireVars, loopVars, ptyVars, auxVars>>
    /\ budget' = [budget EXCEPT !.checkpoints = @ - 1]

CtxRevertTo ==
    \E id \in 0..MaxCheckpointId :
        IF id \in DOMAIN ctx.checkpoints
        THEN /\ LET r == revert_to(ctx, disk, id) IN ctx' = r.c /\ disk' = r.d
             /\ lastOp' = Op("revert_to", id, TRUE)
             /\ UNCHANGED <<wireVars, loopVars, ptyVars, auxVars>>
             /\ UNCHANGED <<snap, budget>>
        ELSE \* ValueError("Unknown checkpoint")
             /\ lastOp' = Op("revert_to", id, FALSE)
             /\ UNCHANGED <<wireVars, loopVars, ptyVars, auxVars>>
             /\ UNCHANGED <<ctx, disk, snap, budget>>

CtxRewrite ==
    /\ LET r == rewrite(ctx, disk) IN ctx' = r.c /\ disk' = r.d
    /\ lastOp' = Op("rewrite", 0, TRUE)
    /\ UNCHANGED <<wireVars, loopVars, ptyVars, auxVars>>
    /\ UNCHANGED <<snap, budget>>

CtxPrune ==
    /\ ctx' = prune_context(ctx)
    /\ lastOp' = Op("prune_context", 0, TRUE)
    /\ UNCHANGED <<wireVars, loopVars, ptyVars, auxVars>>
    /\ UNCHANGED <<disk, snap, budget>>

CtxCompact ==
    \E summary \in Summaries :
        /\ budget.compactions > 0
        /\ budget' = [budget EXCEPT !.compactions = @ - 1]
        /\ LET r == compact_context(ctx, disk, summary)
           IN  ctx' = r.c /\ disk' = r.d
        /\ lastOp' = Op("compact_context", Len(summary), TRUE)
        /\ UNCHANGED <<wireVars, loopVars, ptyVars, auxVars>>
        /\ UNCHANGED snap

CtxNext ==
    \/ CtxAppend
    \/ CtxGrow
    \/ CtxCheckpoint
    \/ CtxRevertTo
    \/ CtxRewrite

(***************************************************************************)
(* tool/truncation.py.  A character is one byte.                           *)
(***************************************************************************)
MAX_LINES == 2000

MAX_BYTES == 50 * 1024

RECURSIVE SplitLines(_)
SplitLines(text) ==
    LET nl == {i \in 1..Len(text) : text[i] = "\n"}
        first == CHOOSE i \in nl : \A j \in nl : i <= j
    IN  IF nl = {} THEN <<text>>
        ELSE <<SubSeq(text, 1, first - 1)>>
             \o SplitLines(SubSeq(text, first + 1, Len(text)))

RECURSIVE JoinLines(_)
JoinLines(lines) ==
    IF Len(lines) = 0 THEN <<>>
    ELSE IF Len(lines) = 1 THEN lines[1]
    ELSE lines[1] \o <<"\n">> \o JoinLines(Tail(lines))

\* len(text.encode("utf-8")): the character written é takes two bytes, the
\* others one
RECURSIVE Bytes(_)
Bytes(text) ==
    IF text = <<>> THEN 0
    ELSE (IF Head(text) = "é" THEN 2 ELSE 1) + Bytes(Tail(text))

\* result_bytes[:max_bytes].decode("utf-8", errors="ignore"): the characters
\* that lie wholly within the first max_bytes bytes
BytePrefix(text, max_bytes) ==
    LET fit == {k \in 0..Len(text) : Bytes(SubSeq(text, 1, k)) <= max_bytes}
    IN  SubSeq(text, 1, CHOOSE k \in fit : \A j \in fit : j <= k)

\* "[Output truncated: ...]" and, when the full output was saved, the line
\* that names the file
truncation_notice(lines, byte_count, skipped, skipped_bytes, save_full) ==
    LET notice_parts ==
            (IF skipped > 0 THEN <<str(skipped), " lines skipped">> ELSE <<>>)
            \o (IF skipped > 0 /\ skipped_bytes > 0 THEN <<", ">> ELSE <<>>)
            \o (IF skipped_bytes > 0 THEN <<str(skipped_bytes), " bytes skipped">>
                ELSE <<>>)
    IN  <<"[Output truncated: ">> \o notice_parts
        \o <<". Total: ", str(Len(lines)), " lines, ", str(byte_count), " bytes]">>
        \o (IF save_full THEN <<"\n", "[Full output saved to: ", "full_path", "]">>
            ELSE <<>>)

\* a truncate_output that cuts by lines only
truncate_output_by_lines_only(text, max_lines, max_bytes, save_full) ==
    LET lines == SplitLines(text)
        byte_count == Bytes(text)
        over == Len(lines) > max_lines
        kept == IF over THEN (IF max_lines = 0 THEN lines ELSE Suffix(lines, max_lines))
                ELSE lines
        skipped == IF over THEN Len(lines) - max_lines ELSE 0
    IN  IF text = <<>> THEN text
        ELSE IF ~(Len(lines) > max_lines \/ byte_count > max_bytes) THEN text
        ELSE truncation_notice(lines, byte_count, skipped, 0, save_full)
             \o <<"\n">> \o JoinLines(kept)

\* truncate_output: keep the last max_lines lines, then the first max_bytes
\* bytes of what was kept, behind the notice
truncate_output(text, max_lines, max_bytes, save_full) ==
    LET lines == SplitLines(text)
        byte_count == Bytes(text)
        over == Len(lines) > max_lines
        kept == IF over THEN (IF max_lines = 0 THEN lines ELSE Suffix(lines, max_lines))
                ELSE lines
        skipped == IF over THEN Len(lines) - max_lines ELSE 0
        joined == JoinLines(kept)
        cut == Bytes(joined) > max_bytes
        result == IF cut THEN BytePrefix(joined, max_bytes) ELSE joined
        skipped_bytes == IF cut THEN byte_count - max_bytes ELSE 0
    IN  IF text = <<>> THEN text
        ELSE IF ~(Len(lines) > max_lines \/ byte_count > max_bytes) THEN text
        ELSE truncation_notice(lines, byte_count, skipped, skipped_bytes, save_full)
             \o <<"\n">> \o result

(***************************************************************************)
(* Exceptions.  An exception is a record with its class; "except           *)
(* Exception" catches the classes that derive from Exception.              *)
(***************************************************************************)
\* the revert signal as a subclass of Exception
BackToTheFutureFromException == "Exception"

\* agent/loop.py: class BackToTheFuture(BaseException)
BackToTheFutureBase == "BaseException"

BackToTheFuture(checkpoint_id, message) ==
    [cls |-> "BackToTheFuture", checkpoint_id |-> checkpoint_id,
     message |-> message]

RuntimeError(text) == [cls |-> "RuntimeError", text |-> text]

ValueError(text) == [cls |-> "ValueError", text |-> text]

IsException(e) ==
    IF e.cls = "BackToTheFuture" THEN BackToTheFutureBase = "Exception" ELSE TRUE

Returned(value) == [kind |-> "return", value |-> value]

Raised(exc) == [kind |-> "raise", exc |-> exc]

(***************************************************************************)
(* llm/message.py: Message.tool_calls.  The text of a JSON object is one   *)
(* symbolic character that holds the object; malformed text is another.    *)
(***************************************************************************)
ToolCall(id, name, arguments) == [id |-> id, name |-> name, arguments |-> arguments]

tool_calls(msg) ==
    LET tc == SelectParts(msg.parts, "tool_call")
    IN  [i \in 1..Len(tc) |->
            ToolCall(tc[i].id, tc[i].name,
                     IF tc[i].arguments = <<>> THEN EmptyDict
                     ELSE IF tc[i].arguments[1].json = "object"
                     THEN tc[i].arguments[1].value
                     ELSE EmptyDict)]

(***************************************************************************)
(* tool/base.py, tool/registry.py, tool/builtin: the tool pipeline.        *)
(* behaviour is what the tool's execute meets in its environment.          *)
(***************************************************************************)
ToolOk(output) == [output |-> output, is_error |-> FALSE]

ToolError(output) == [output |-> output, is_error |-> TRUE]

\* the names registered in the registry handed to the loop
RegisteredTools == {<<"shell">>, <<"send_dmail">>, <<"disassemble">>}

\* the required fields of each tool's param_model
RequiredParams(name) ==
    IF name = <<"send_dmail">> THEN {"checkpoint_id", "message", "reason"}
    ELSE IF name = <<"disassemble">> THEN {}
    ELSE {"command"}

model_validate(name, arguments) == RequiredParams(name) \subseteq DOMAIN arguments

\* SendDMailTool.execute raises the revert signal; the shell tool's execute
\* returns or raises as its environment decides; DisassembleTool.execute
\* fills in its defaults and catches what its session raises
execute(name, params, behaviour) ==
    IF name = <<"send_dmail">>
    THEN Raised(BackToTheFuture(params["checkpoint_id"], params["message"]))
    ELSE IF name = <<"disassemble">>
    THEN IF behaviour = "ok"
         THEN Returned(ToolOk(<<"pd ", "64", " @ ">>
                              \o Get(params, "address", <<"current">>)))
         ELSE Returned(ToolError(<<"Disassembly failed: ">>))
    ELSE CASE behaviour = "ok" -> Returned(ToolOk(<<"$">> \o params["command"]))
           [] behaviour = "error" -> Returned(ToolError(<<"!">> \o params["command"]))
           [] behaviour = "raise" -> Raised(RuntimeError(<<"boom">>))

\* BaseTool.__call__: (content, is_error), or the exception it lets through
tool_call(name, arguments, behaviour) ==
    IF ~model_validate(name, arguments)
    THEN Returned(<<<<"Invalid parameters: ">>, TRUE>>)
    ELSE LET r == execute(name, arguments, behaviour)
         IN  IF r.kind = "raise"
             THEN IF IsException(r.exc)
                  THEN Returned(<<<<"Error executing ">> \o name, TRUE>>)
                  ELSE r
             ELSE Returned(<<truncate_output(r.value.output, MAX_LINES, MAX_BYTES, TRUE), r.value.is_error>>)

\* ToolRegistry.dispatch
dispatch(tool_call_, behaviour) ==
    IF tool_call_.name \notin RegisteredTools
    THEN Returned(<<<<"Unknown tool: ">> \o tool_call_.name, TRUE>>)
    ELSE tool_call(tool_call_.name, tool_call_.arguments, behaviour)

\* whether execute is reached for this call, and what it does there
Executes(tc) == tc.name \in RegisteredTools /\ model_validate(tc.name, tc.arguments)

\* execute is reached for this call and raises an ordinary exception
Throws(tc, behaviour) ==
    /\ Executes(tc)
    /\ execute(tc.name, tc.arguments, behaviour).kind = "raise"
    /\ IsException(execute(tc.name, tc.arguments, behaviour).exc)

(***************************************************************************)
(* llm/streaming.py: step.  _run_tool is one task of the gather.           *)
(***************************************************************************)
\* a task that builds every tool result without the error flag
_run_tool_dropping_is_error(tc, behaviour) ==
    LET r == dispatch(tc, behaviour)
    IN  IF r.kind = "raise"
        THEN IF IsException(r.exc)
             THEN Returned(MessageToolResult(tc.id, <<"Error: ">>, FALSE))
             ELSE r
        ELSE Returned(MessageToolResult(tc.id, r.value[1], FALSE))

_run_tool(tc, behaviour) ==
    LET r == dispatch(tc, behaviour)
    IN  IF r.kind = "raise"
        THEN IF IsException(r.exc)
             THEN Returned(MessageToolResult(tc.id, <<"Error: ">>, TRUE))
             ELSE r
        ELSE Returned(MessageToolResult(tc.id, r.value[1], r.value[2]))

\* a gather that returns the results in the order the tasks finished
gather_by_completion(tasks, order) == [k \in 1..Len(order) |-> tasks[order[k]].value]

\* asyncio.gather(*tasks): the results in the order of the tasks
gather(tasks, order) == [i \in 1..Len(tasks) |-> tasks[i].value]

(***************************************************************************)
(* session/wire.py: the event wire.                                        *)
(***************************************************************************)
WireEvent(type, data) == [type |-> type, data |-> data]

\* Python's None, where a field holds no value
None == "None"

\* None as an item of a queue: what close() puts on it
NoneItem == [type |-> "None"]

\* the events among the items of a queue
Events(items) == SelectSeq(items, LAMBDA x : x.type # "None")

NewWire == [subscribers |-> <<>>, closed |-> FALSE]

\* put_all with every item put at the head of its queue
RECURSIVE put_all_front(_, _, _)
put_all_front(qs, subscribers, item) ==
    IF subscribers = <<>> THEN qs
    ELSE put_all_front([qs EXCEPT ![Head(subscribers)] = <<item>> \o @],
                       Tail(subscribers), item)

\* q.put_nowait(item) for every q of the subscriber list, in list order
RECURSIVE put_all(_, _, _)
put_all(qs, subscribers, item) ==
    IF subscribers = <<>> THEN qs
    ELSE put_all([qs EXCEPT ![Head(subscribers)] = Append(@, item)],
                 Tail(subscribers), item)

\* send without the test of _closed
send_unguarded(w, qs, event) == put_all(qs, w.subscribers, event)

\* the queues after send(event)
send(w, qs, event) ==
    IF w.closed THEN qs ELSE put_all(qs, w.subscribers, event)

send_text(w, qs, text) == send(w, qs, WireEvent("text", [text |-> text]))

send_status(w, qs, message) ==
    send(w, qs, WireEvent("status", [message |-> message]))

send_error(w, qs, error) == send(w, qs, WireEvent("error", [error |-> error]))

send_observation(w, qs, description, category) ==
    send(w, qs, WireEvent("observation",
                          [description |-> description, category |-> category]))

send_hypothesis(w, qs, description, status, confidence, hyp_id) ==
    send(w, qs, WireEvent("hypothesis",
                          [description |-> description, status |-> status,
                           confidence |-> confidence, id |-> hyp_id]))

send_finding(w, qs, description, category, verified) ==
    send(w, qs, WireEvent("finding",
                          [description |-> description, category |-> category,
                           verified |-> verified]))

send_target_info(w, qs, target_data) ==
    send(w, qs, WireEvent("target_info", target_data))

send_pty_exit(w, qs, session_id, title, exit_code, last_output) ==
    send(w, qs, WireEvent("pty_exit",
                          [session_id |-> session_id, title |-> title,
                           exit_code |-> exit_code,
                           last_output |-> Prefix(last_output, 500)]))

\* the wire and the queues after subscribe(); the new queue is the next id
subscribe(w, qs) ==
    LET q == Cardinality(DOMAIN qs) + 1
    IN  [w |-> [w EXCEPT !.subscribers = Append(@, q)],
         qs |-> (q :> <<>>) @@ qs]

unsubscribe(w, q) ==
    [w EXCEPT !.subscribers = SelectSeq(@, LAMBDA x : x # q)]

\* the wire and the queues after close()
close(w, qs) ==
    [w |-> [w EXCEPT !.closed = TRUE], qs |-> put_all(qs, w.subscribers, NoneItem)]

(***************************************************************************)
(* The wire driven by its callers: the producer sends and closes, the      *)
(* consumers subscribe, get and unsubscribe.                               *)
(***************************************************************************)
\* the events the producer passes to send
SendEvents == {WireEvent("turn_begin", EmptyDict), WireEvent("turn_end", EmptyDict)}

SendOps ==
    {"send", "send_text", "send_status", "send_error", "send_observation",
     "send_hypothesis", "send_finding", "send_target_info", "send_pty_exit"}

\* the queues after the send operation named op, with the arguments the
\* model explores
Sent(op, w, qs) ==
    CASE op = "send" -> send(w, qs, WireEvent("turn_begin", EmptyDict))
      [] op = "send_text" -> send_text(w, qs, <<"h", "i">>)
      [] op = "send_status" -> send_status(w, qs, <<"o", "k">>)
      [] op = "send_error" -> send_error(w, qs, <<"e">>)
      [] op = "send_observation" -> send_observation(w, qs, <<"o">>, <<"general">>)
      [] op = "send_hypothesis" ->
            send_hypothesis(w, qs, <<"h">>, <<"proposed">>, 5, <<>>)
      [] op = "send_finding" -> send_finding(w, qs, <<"f">>, <<"general">>, TRUE)
      [] op = "send_target_info" -> send_target_info(w, qs, [arch |-> <<"x">>])
      [] op = "send_pty_exit" -> send_pty_exit(w, qs, <<"1">>, <<"t">>, 0, <<"l">>)

SentEvent(op) ==
    CASE op = "send" -> WireEvent("turn_begin", EmptyDict)
      [] op = "send_text" -> WireEvent("text", [text |-> <<"h", "i">>])
      [] op = "send_status" -> WireEvent("status", [message |-> <<"o", "k">>])
      [] op = "send_error" -> WireEvent("error", [error |-> <<"e">>])
      [] op = "send_observation" ->
            WireEvent("observation",
                      [description |-> <<"o">>, category |-> <<"general">>])
      [] op = "send_hypothesis" ->
            WireEvent("hypothesis",
                      [description |-> <<"h">>, status |-> <<"proposed">>,
                       confidence |-> 5, id |-> <<>>])
      [] op = "send_finding" ->
            WireEvent("finding",
                      [description |-> <<"f">>, category |-> <<"general">>,
                       verified |-> TRUE])
      [] op = "send_target_info" -> WireEvent("target_info", [arch |-> <<"x">>])
      [] op = "send_pty_exit" ->
            WireEvent("pty_exit",
                      [session_id |-> <<"1">>, title |-> <<"t">>, exit_code |-> 0,
                       last_output |-> <<"l">>])

WireInit ==
    /\ wire = NewWire
    /\ queues = EmptyDict
    /\ taken = EmptyDict
    /\ due = EmptyDict
    /\ sends = [calls |-> 0, after_close |-> 0]
    /\ closes = 0
    /\ present = {}

WireSubscribe ==
    /\ Cardinality(DOMAIN queues) < MaxSubscribers
    /\ LET r == subscribe(wire, queues)
       IN  /\ wire' = r.w
           /\ queues' = r.qs
           /\ taken' = [q \in DOMAIN r.qs |-> IF q \in DOMAIN taken THEN taken[q] ELSE <<>>]
           /\ due' = [q \in DOMAIN r.qs |-> IF q \in DOMAIN due THEN due[q] ELSE <<>>]
    /\ UNCHANGED <<sends, closes, present, ctxVars, loopVars, ptyVars, auxVars>>

WireUnsubscribe ==
    \E q \in DOMAIN queues :
        /\ wire' = unsubscribe(wire, q)
        /\ UNCHANGED <<queues, taken, due, sends, closes, present, ctxVars, loopVars, ptyVars, auxVars>>

\* the queues' history after a call of send with this event
Due(event) ==
    [q \in DOMAIN due |->
        IF closes = 0 /\ (\E i \in 1..Len(wire.subscribers) : wire.subscribers[i] = q)
        THEN Append(due[q], event) ELSE due[q]]

Counted ==
    [calls |-> sends.calls + 1,
     after_close |-> IF closes > 0 /\ wire.subscribers # <<>>
                     THEN sends.after_close + 1 ELSE sends.after_close]

\* the producer calls send(event)
WireSendEvent ==
    \E event \in SendEvents :
        /\ sends.calls < MaxSends
        /\ queues' = send(wire, queues, event)
        /\ due' = Due(event)
        /\ sends' = Counted
        /\ UNCHANGED <<wire, taken, closes, present, ctxVars, loopVars, ptyVars, auxVars>>

\* the producer calls send or one of the convenience methods
WireSend ==
    \E op \in SendOps :
        /\ sends.calls < MaxApiSends
        /\ queues' = Sent(op, wire, queues)
        /\ due' = Due(SentEvent(op))
        /\ sends' = Counted
        /\ UNCHANGED <<wire, taken, closes, present, ctxVars, loopVars, ptyVars, auxVars>>

WireClose ==
    /\ closes < MaxCloses
    /\ LET r == close(wire, queues) IN wire' = r.w /\ queues' = r.qs
    /\ closes' = closes + 1
    /\ present' = IF closes = 0
                  THEN {wire.subscribers[i] : i \in 1..Len(wire.subscribers)}
                  ELSE present
    /\ UNCHANGED <<taken, due, sends, ctxVars, loopVars, ptyVars, auxVars>>

\* how many items the consumers have got so far
gets == Len(Flatten([q \in 1..Cardinality(DOMAIN taken) |-> taken[q]]))

\* a consumer's queue.get() returning
WireGet ==
    \E q \in DOMAIN queues :
        /\ queues[q] # <<>>
        /\ gets < MaxGets
        /\ taken' = [taken EXCEPT ![q] = Append(@, Head(queues[q]))]
        /\ queues' = [queues EXCEPT ![q] = Tail(@)]
        /\ UNCHANGED <<wire, due, sends, closes, present, ctxVars, loopVars, ptyVars, auxVars>>

WireNext ==
    \/ WireSubscribe
    \/ WireUnsubscribe
    \/ WireSendEvent
    \/ WireClose
    \/ WireGet

WireApiNext ==
    \/ WireSubscribe
    \/ WireUnsubscribe
    \/ WireSend
    \/ WireClose

(***************************************************************************)
(* context/management.py: auto_manage_context.  The token estimates are    *)
(* compared with the provider's context window, which the caller           *)
(* configures: the outcome of each comparison is an input.  summary is     *)
(* what generate returned or raised for the compaction prompt.             *)
(***************************************************************************)
Managed(kind, c, d, exc) == [kind |-> kind, c |-> c, d |-> d, exc |-> exc]

auto_manage_context(c, d, over_before, over_after, summary) ==
    LET c1 == prune_context(c)
        n == Len(c1.messages)
        asks == /\ n > KEEP_RECENT
                /\ _render_messages_for_summary(Prefix(c1.messages, n - KEEP_RECENT)) # <<>>
        r == compact_context(c1, d, IF asks /\ summary.kind = "return"
                                    THEN summary.value ELSE <<>>)
    IN  IF ~over_before THEN Managed("return", c, d, None)
        ELSE IF ~over_after THEN Managed("return", c1, d, None)
        ELSE IF asks /\ summary.kind = "raise" THEN Managed("raise", c1, d, summary.exc)
        ELSE Managed("return", r.c, r.d, None)

\* the action auto_manage_context reports when it returns
auto_manage_action(c, d, over_before, over_after, summary) ==
    LET c1 == prune_context(c)
        n == Len(c1.messages)
        pruned == c1 # c
        compacted ==
            /\ n > KEEP_RECENT
            /\ _render_messages_for_summary(Prefix(c1.messages, n - KEEP_RECENT)) # <<>>
            /\ summary.kind = "return"
            /\ summary.value # <<>>
    IN  IF ~over_before THEN "none"
        ELSE IF ~over_after THEN (IF pruned THEN "pruned" ELSE "none")
        ELSE IF pruned /\ compacted THEN "pruned+compacted"
        ELSE IF pruned THEN "pruned"
        ELSE IF compacted THEN "compacted"
        ELSE "none"

\* what the summary provider does with the compaction prompt
SummaryOutcomes ==
    {Returned(<<>>), Returned(<<"z">>), Raised(RuntimeError(<<"boom">>))}

\* a caller runs auto_manage_context on the context
CtxAutoManage ==
    \E over_before, over_after \in BOOLEAN, summary \in SummaryOutcomes :
        /\ budget.compactions > 0
        /\ budget' = [budget EXCEPT !.compactions = @ - 1]
        /\ LET r == auto_manage_context(ctx, disk, over_before, over_after, summary)
           IN  /\ ctx' = r.c
               /\ disk' = r.d
               /\ lastOp' = Op("auto_manage_context",
                               IF r.kind = "return"
                               THEN auto_manage_action(ctx, disk, over_before,
                                                       over_after, summary)
                               ELSE "raised",
                               r.kind = "return")
        /\ UNCHANGED <<snap, wireVars, loopVars, ptyVars, auxVars>>

(***************************************************************************)
(* agent/loop.py: agent_loop, with llm/streaming.py: step inside it.       *)
(***************************************************************************)
ShellCall(id, command) ==
    ToolCallPart(id, <<"shell">>, JsonText([command |-> command]))

DMailCall(id, checkpoint_id) ==
    ToolCallPart(id, <<"send_dmail">>,
                 JsonText([checkpoint_id |-> checkpoint_id, message |-> <<"m">>,
                           reason |-> <<"r">>]))

\* a checkpoint id that no context holds
UnknownCheckpoint == 0 - 1

\* the assistant messages the provider answers with
ProviderReplies ==
    {Message("assistant", <<TextPart(<<"done">>)>>),
     Message("assistant", <<TextPart(<<"c">>), ShellCall(<<"1">>, <<"a">>),
                            ShellCall(<<"2">>, <<"b">>)>>),
     Message("assistant", <<DMailCall(<<"1">>, 0)>>),
     Message("assistant", <<ShellCall(<<"1">>, <<"a">>), DMailCall(<<"2">>, 1)>>),
     Message("assistant", <<DMailCall(<<"1">>, 0), DMailCall(<<"2">>, 1)>>),
     Message("assistant", <<DMailCall(<<"1">>, UnknownCheckpoint)>>),
     Message("assistant", <<ToolCallPart(<<"1">>, <<"nope">>, JsonText(EmptyDict)),
                            ToolCallPart(<<"2">>, <<"shell">>, MalformedJson)>>),
     Message("assistant", <<ToolCallPart(<<"1">>, <<"disassemble">>, MalformedJson)>>)}

\* what a tool's execute meets
Behaviours == {"ok", "error", "raise"}

DMailNote(message) ==
    <<"[D-Mail from your future self]: ">> \o message
    \o <<"\n", "\n", "Use this knowledge to avoid repeating the same work. ",
         "Continue with the task, applying what you now know.">>

Pending == [kind |-> "pending"]

\* no exception has left the loop; no reply has been generated
NoException == [cls |-> None, text |-> <<>>]

NoMessage == Message(None, <<>>)

NoStep ==
    [message |-> NoMessage, calls |-> <<>>, tasks |-> <<>>, order |-> <<>>, threw |-> {}]

\* the positions of the tasks that raised, in the order they finished
RaisedFirst(c) ==
    LET ks == {k \in 1..Len(c.order) : c.tasks[c.order[k]].kind = "raise"}
    IN  c.order[CHOOSE k \in ks : \A j \in ks : k <= j]

SomeRaised(c) == \E i \in 1..Len(c.tasks) : c.tasks[i].kind = "raise"

AllReturned(c) == \A i \in 1..Len(c.tasks) : c.tasks[i].kind = "return"

NumPending(c) == Cardinality({i \in 1..Len(c.tasks) : c.tasks[i].kind = "pending"})

\* a context that earlier turns of the session left: the goal, a checkpoint
\* and three steps
LoopSeedConversation ==
    Flatten([i \in 1..3 |->
        <<Message("assistant", <<ShellCall(<<"0">>, <<"s">>)>>),
          MessageToolResult(<<"0">>, <<"$", "s">>, FALSE)>>])

LoopSeedState == grow_results(SeedCheckpoint.c, SeedCheckpoint.d, LoopSeedConversation)

NoTally ==
    [steps |-> 0, grown |-> 0, reverts |-> 0, errors |-> 0, nocalls |-> 0,
     last |-> "init", on_dmail |-> <<>>]

\* the top-level loop of a session is given auto_manage_context and the
\* session's context; a subagent's loop has no compact_fn and a new context
\* registry.py 39-49: the registered tools whose specs are returned; names
\* is None (all of them) or a list of names
get_specs(names) ==
    IF names = None THEN RegisteredTools
    ELSE {t \in RegisteredTools : \E i \in 1..Len(names) : names[i] = t}

\* loop.py 86-90: the specs handed to the provider with each step
tools_specs(a) == IF a.tools # <<>> THEN get_specs(a.tools) ELSE get_specs(None)

\* the allowed-tools lists of the agents: none declared, or the shell only
AgentTools == {<<>>, <<<<"shell">>>>}

\* no growth has been started
NoGrowth == [state |-> "none", appended |-> 0, cancelled_at |-> 0 - 1]

LoopInit ==
    /\ agent \in [max_steps : 0..MaxSteps, compact_fn : BOOLEAN, tools : AgentTools]
    /\ ctx = IF agent.compact_fn THEN LoopSeedState.c ELSE SeedGoal.c
    /\ disk = IF agent.compact_fn THEN LoopSeedState.d ELSE SeedGoal.d
    /\ snap = IF agent.compact_fn THEN SeedSnap ELSE EmptyDict
    /\ lastOp = Op("init", 0, TRUE)
    /\ budget = [appends |-> 0, checkpoints |-> 0, compactions |-> 0]
    /\ loop = [pc |-> "while", step_no |-> 0, outcome |-> None, exc |-> NoException]
    /\ cur = NoStep
    /\ tally = NoTally
    /\ orphans = 0
    /\ growth = NoGrowth

\* agent_loop called with a small step budget
FairLoopInit ==
    /\ agent \in [max_steps : 0..FairMaxSteps, compact_fn : BOOLEAN, tools : AgentTools]
    /\ ctx = IF agent.compact_fn THEN LoopSeedState.c ELSE SeedGoal.c
    /\ disk = IF agent.compact_fn THEN LoopSeedState.d ELSE SeedGoal.d
    /\ snap = IF agent.compact_fn THEN SeedSnap ELSE EmptyDict
    /\ lastOp = Op("init", 0, TRUE)
    /\ budget = [appends |-> 0, checkpoints |-> 0, compactions |-> 0]
    /\ loop = [pc |-> "while", step_no |-> 0, outcome |-> None, exc |-> NoException]
    /\ cur = NoStep
    /\ tally = NoTally
    /\ orphans = 0
    /\ growth = NoGrowth

\* no agent loop is running
LoopIdle ==
    /\ agent = [max_steps |-> 0, compact_fn |-> FALSE, tools |-> <<>>]
    /\ loop = [pc |-> "idle", step_no |-> 0, outcome |-> None, exc |-> NoException]
    /\ cur = NoStep
    /\ tally = NoTally
    /\ orphans = 0
    /\ growth = NoGrowth

\* loop.py 93-107: the while test passes, step_no += 1, auto-compaction,
\* checkpoint
LoopBegin ==
    /\ loop.pc = "while"
    /\ loop.step_no < agent.max_steps
    /\ \E trigger, over_before, over_after \in BOOLEAN, summary \in SummaryOutcomes :
          LET m == IF agent.compact_fn /\ trigger
                   THEN auto_manage_context(ctx, disk, over_before, over_after, summary)
                   ELSE Managed("return", ctx, disk, None)
              r == checkpoint(m.c, m.d)
          IN  /\ m.kind = "return"
              /\ ctx' = r.c
              /\ disk' = r.d
              /\ snap' = (m.c.counter :> m.c.messages) @@ snap
    /\ loop' = [loop EXCEPT !.pc = "step", !.step_no = @ + 1]
    /\ cur' = NoStep
    /\ tally' = [tally EXCEPT !.last = "checkpoint"]
    /\ UNCHANGED <<growth, agent, orphans, lastOp, budget, wireVars, ptyVars, auxVars>>

\* loop.py 104: compact_fn raises, outside the try of the step
LoopCompactionRaises ==
    /\ loop.pc = "while"
    /\ loop.step_no < agent.max_steps
    /\ agent.compact_fn
    /\ \E over_after \in BOOLEAN, summary \in SummaryOutcomes :
          LET m == auto_manage_context(ctx, disk, TRUE, over_after, summary)
          IN  /\ m.kind = "raise"
              /\ ctx' = m.c
              /\ disk' = m.d
              /\ loop' = [loop EXCEPT !.pc = "raised", !.step_no = @ + 1,
                                      !.exc = m.exc]
    /\ cur' = NoStep
    /\ tally' = [tally EXCEPT !.errors = @ + 1, !.last = "compaction_raised"]
    /\ UNCHANGED <<growth, agent, orphans, snap, lastOp, budget, wireVars, ptyVars, auxVars>>

\* loop.py 93, 190-191: the while test fails
LoopExhausted ==
    /\ loop.pc = "while"
    /\ ~(loop.step_no < agent.max_steps)
    /\ loop' = [loop EXCEPT !.pc = "returned", !.outcome = "MAX_STEPS"]
    /\ UNCHANGED <<growth, agent, cur, tally, orphans, ctxVars, wireVars, ptyVars, auxVars>>

\* streaming.py 230, loop.py 161-169: generate raises, the loop returns ERROR
GenerateRaises ==
    /\ loop.pc = "step"
    /\ IsException(RuntimeError(<<"boom">>))
    /\ loop' = [loop EXCEPT !.pc = "returned", !.outcome = "ERROR"]
    /\ tally' = [tally EXCEPT !.steps = @ + 1, !.errors = @ + 1, !.last = "error"]
    /\ UNCHANGED <<growth, agent, cur, orphans, ctxVars, wireVars, ptyVars, auxVars>>

\* GenerateFinal with the loop going back to its while test
GenerateFinalGoesOn ==
    /\ loop.pc = "step"
    /\ \E reply \in ProviderReplies :
          /\ tool_calls(reply) = <<>>
          /\ LET r == grow(ctx, disk, reply, <<>>) IN ctx' = r.c /\ disk' = r.d
          /\ cur' = [NoStep EXCEPT !.message = reply]
    /\ loop' = [loop EXCEPT !.pc = "while"]
    /\ tally' = [tally EXCEPT !.steps = @ + 1, !.grown = @ + 1, !.nocalls = @ + 1,
                              !.last = "grown"]
    /\ UNCHANGED <<growth, agent, orphans, snap, lastOp, budget, wireVars, ptyVars, auxVars>>

\* streaming.py 230-260, loop.py 172-186: the reply has no tool calls, step
\* returns it, the context grows, the loop returns COMPLETE
GenerateFinal ==
    /\ loop.pc = "step"
    /\ \E reply \in ProviderReplies :
          /\ tool_calls(reply) = <<>>
          /\ LET r == grow(ctx, disk, reply, <<>>) IN ctx' = r.c /\ disk' = r.d
          /\ cur' = [NoStep EXCEPT !.message = reply]
    /\ loop' = [loop EXCEPT !.pc = "returned", !.outcome = "COMPLETE"]
    /\ tally' = [tally EXCEPT !.steps = @ + 1, !.grown = @ + 1, !.nocalls = @ + 1,
                              !.last = "grown"]
    /\ UNCHANGED <<growth, agent, orphans, snap, lastOp, budget, wireVars, ptyVars, auxVars>>

\* streaming.py 230-253: the reply has tool calls, one task per call starts
GenerateToolCalls ==
    /\ loop.pc = "step"
    /\ \E reply \in ProviderReplies :
          /\ tool_calls(reply) # <<>>
          /\ cur' = [message |-> reply, calls |-> tool_calls(reply),
                     tasks |-> [i \in 1..Len(tool_calls(reply)) |-> Pending],
                     order |-> <<>>, threw |-> {}]
    /\ loop' = [loop EXCEPT !.pc = "gather"]
    /\ tally' = [tally EXCEPT !.steps = @ + 1, !.last = "generated"]
    /\ UNCHANGED <<growth, agent, orphans, ctxVars, wireVars, ptyVars, auxVars>>

\* streaming.py 238-250: one task of the gather finishes
ToolFinish ==
    /\ loop.pc = "gather"
    /\ \E i \in 1..Len(cur.tasks), behaviour \in Behaviours :
          /\ cur.tasks[i] = Pending
          /\ cur' = [cur EXCEPT !.tasks[i] = _run_tool(cur.calls[i], behaviour),
                                !.order = Append(@, i),
                                !.threw = IF Throws(cur.calls[i], behaviour)
                                          THEN @ \cup {i} ELSE @]
    /\ UNCHANGED <<growth, agent, loop, tally, orphans, ctxVars, wireVars, ptyVars, auxVars>>

\* streaming.py 253-260, loop.py 172-188: every task returned, gather
\* returns, step returns, the context grows, the loop continues
StepReturns ==
    /\ loop.pc = "gather"
    /\ AllReturned(cur)
    /\ LET r == grow(ctx, disk, cur.message, gather(cur.tasks, cur.order))
       IN  ctx' = r.c /\ disk' = r.d
    /\ loop' = [loop EXCEPT !.pc = "while"]
    /\ tally' = [tally EXCEPT !.grown = @ + 1, !.last = "grown"]
    /\ UNCHANGED <<growth, agent, cur, orphans, snap, lastOp, budget, wireVars, ptyVars, auxVars>>

\* a revert that gives the step of the D-Mail back to the budget
DMailRevertRestoringBudget ==
    /\ loop.pc = "gather"
    /\ SomeRaised(cur)
    /\ LET dmail == cur.tasks[RaisedFirst(cur)].exc
           r1 == revert_to(ctx, disk, dmail.checkpoint_id)
           r2 == append_system(r1.c, r1.d, DMailNote(dmail.message))
       IN  /\ dmail.cls = "BackToTheFuture"
           /\ dmail.checkpoint_id \in DOMAIN ctx.checkpoints
           /\ ctx' = r2.c
           /\ disk' = r2.d
           /\ tally' = [tally EXCEPT !.reverts = @ + 1, !.last = "revert",
                            !.on_dmail = <<dmail.checkpoint_id, dmail.message>>]
    /\ loop' = [loop EXCEPT !.pc = "while", !.step_no = @ - 1]
    /\ orphans' = orphans + NumPending(cur)
    /\ UNCHANGED <<growth, agent, cur, snap, lastOp, budget, wireVars, ptyVars, auxVars>>

\* streaming.py 253, loop.py 148-160: a task raised the revert signal, gather
\* raises it while the other tasks go on, the loop reverts and continues
DMailRevert ==
    /\ loop.pc = "gather"
    /\ SomeRaised(cur)
    /\ LET dmail == cur.tasks[RaisedFirst(cur)].exc
           r1 == revert_to(ctx, disk, dmail.checkpoint_id)
           r2 == append_system(r1.c, r1.d, DMailNote(dmail.message))
       IN  /\ dmail.cls = "BackToTheFuture"
           /\ dmail.checkpoint_id \in DOMAIN ctx.checkpoints
           /\ ctx' = r2.c
           /\ disk' = r2.d
           /\ tally' = [tally EXCEPT !.reverts = @ + 1, !.last = "revert",
                            !.on_dmail = <<dmail.checkpoint_id, dmail.message>>]
    /\ loop' = [loop EXCEPT !.pc = "while"]
    /\ orphans' = orphans + NumPending(cur)
    /\ UNCHANGED <<growth, agent, cur, snap, lastOp, budget, wireVars, ptyVars, auxVars>>

\* loop.py 154, context 70-71: revert_to raises ValueError inside the
\* handler of the revert signal; no handler of the loop covers it
DMailUnknownCheckpoint ==
    /\ loop.pc = "gather"
    /\ SomeRaised(cur)
    /\ LET dmail == cur.tasks[RaisedFirst(cur)].exc
       IN  /\ dmail.cls = "BackToTheFuture"
           /\ dmail.checkpoint_id \notin DOMAIN ctx.checkpoints
           /\ tally' = [tally EXCEPT !.errors = @ + 1, !.last = "revert_raised",
                            !.on_dmail = <<dmail.checkpoint_id, dmail.message>>]
    /\ loop' = [loop EXCEPT !.pc = "raised",
                            !.exc = ValueError(<<"Unknown checkpoint">>)]
    /\ orphans' = orphans + NumPending(cur)
    /\ UNCHANGED <<growth, agent, cur, ctxVars, wireVars, ptyVars, auxVars>>

\* a task that its gather no longer waits for finishes; its result is dropped
OrphanFinish ==
    /\ orphans > 0
    /\ orphans' = orphans - 1
    /\ UNCHANGED <<growth, agent, loop, cur, tally, ctxVars, wireVars, ptyVars, auxVars>>

(***************************************************************************)
(* Cancellation of the task that runs agent_loop.  The growth of the       *)
(* context is a task of its own inside asyncio.shield; its appends are     *)
(* steps of their own here.                                                *)
(***************************************************************************)
\* one agent without compaction, on a context that holds the goal
CancelInit ==
    /\ agent = [max_steps |-> CancelMaxSteps, compact_fn |-> FALSE, tools |-> <<>>]
    /\ ctx = SeedGoal.c
    /\ disk = SeedGoal.d
    /\ snap = EmptyDict
    /\ lastOp = Op("init", 0, TRUE)
    /\ budget = [appends |-> 0, checkpoints |-> 0, compactions |-> 0]
    /\ loop = [pc |-> "while", step_no |-> 0, outcome |-> None, exc |-> NoException]
    /\ cur = NoStep
    /\ tally = NoTally
    /\ orphans = 0
    /\ growth = NoGrowth

\* the messages grow(result.message, result.tool_results) appends, in order
StepMessages(c) == <<c.message>> \o gather(c.tasks, c.order)

\* a growth that is cancelled together with the task that awaits it
unshielded(state) == IF state = "running" THEN "cancelled" ELSE state

\* asyncio.shield: cancelling the awaiting task leaves the inner task alone
shield(state) == state

\* loop.py 172: every task returned, step returns, the growth task starts
\* and the loop awaits it
GrowStart ==
    /\ loop.pc = "gather"
    /\ AllReturned(cur)
    /\ loop' = [loop EXCEPT !.pc = "grow"]
    /\ growth' = [state |-> "running", appended |-> 0, cancelled_at |-> 0 - 1]
    /\ UNCHANGED <<agent, cur, tally, orphans, ctxVars, wireVars, ptyVars, auxVars>>

\* context 92-96, 48-51: the growth task appends its next message
GrowAppend ==
    /\ growth.state = "running"
    /\ growth.appended < Len(StepMessages(cur))
    /\ LET r == append(ctx, disk, StepMessages(cur)[growth.appended + 1])
       IN  ctx' = r.c /\ disk' = r.d
    /\ growth' = [growth EXCEPT !.appended = @ + 1]
    /\ UNCHANGED <<agent, loop, cur, tally, orphans, snap, lastOp, budget, wireVars, ptyVars, auxVars>>

\* the growth task ends; loop.py 172-188: a loop that was not cancelled
\* gets its result and goes on to its next iteration
GrowFinish ==
    /\ growth.state = "running"
    /\ growth.appended = Len(StepMessages(cur))
    /\ IF loop.pc = "grow"
       THEN /\ growth' = NoGrowth
            /\ loop' = [loop EXCEPT !.pc = "while"]
            /\ tally' = [tally EXCEPT !.grown = @ + 1, !.last = "grown"]
       ELSE /\ growth' = [growth EXCEPT !.state = "done"]
            /\ UNCHANGED <<loop, tally>>
    /\ UNCHANGED <<agent, cur, orphans, ctxVars, wireVars, ptyVars, auxVars>>

\* task.cancel(): CancelledError is raised at the await the loop is at
\* (generate, gather or the shield); gather cancels the tool tasks
Cancel ==
    /\ loop.pc \in {"step", "gather", "grow"}
    /\ loop' = [loop EXCEPT !.pc = "cancelled"]
    /\ growth' = [growth EXCEPT !.state = shield(@),
                                !.cancelled_at = IF growth.state = "running"
                                                 THEN growth.appended ELSE @]
    /\ UNCHANGED <<agent, cur, tally, orphans, ctxVars, wireVars, ptyVars, auxVars>>

CancelNext ==
    \/ LoopBegin
    \/ LoopExhausted
    \/ GenerateRaises
    \/ GenerateFinal
    \/ GenerateToolCalls
    \/ ToolFinish
    \/ GrowStart
    \/ GrowAppend
    \/ GrowFinish
    \/ Cancel
    \/ DMailRevert
    \/ DMailUnknownCheckpoint
    \/ OrphanFinish

(***************************************************************************)
(* pty/manager.py and pty/session.py: the PTY sessions and their manager.  *)
(* A session's process group is its leader (the spawned command) and the   *)
(* other processes that were started in the group.                         *)
(***************************************************************************)
MAX_SESSIONS == 10

\* PTYSession.start: the command runs in a new session and process group.
\* trail lists the values _status has been given, master_fd tells whether
\* the master side of the pty is open, reaped whether the Popen object has
\* collected the exit status, on_exit counts the calls of the callback.
PTYSession == [status |-> "running", leader |-> TRUE, others |-> FALSE,
               trail |-> <<"running">>, master_fd |-> "open",
               reaped |-> FALSE, on_exit |-> 0]

\* PTYSession.kill: unless the session is neither running nor being killed,
\* set KILLING, SIGKILL the process group, wait for the process, close the
\* master fd, set KILLED
session_kill(session) ==
    IF session.status \notin {"running", "killing"} THEN session
    ELSE [session EXCEPT !.status = "killed", !.leader = FALSE, !.others = FALSE,
                         !.trail = IF session.status = "killing"
                                   THEN Append(@, "killed")
                                   ELSE @ \o <<"killing", "killed">>,
                         !.reaped = TRUE, !.master_fd = "closed"]

\* PTYSession._read_loop, its finally block: a session still RUNNING polls
\* the process, becomes EXITED and calls on_exit
_read_loop(session) ==
    IF session.status = "running"
    THEN [session EXCEPT !.status = "exited", !.trail = Append(@, "exited"),
                         !.reaped = @ \/ ~session.leader,
                         !.on_exit = @ + 1]
    ELSE session

\* a wait_for_exit that marks the session EXITED whatever its status was
wait_for_exit_unguarded(session) ==
    IF ~session.leader
    THEN [session EXCEPT !.reaped = TRUE, !.status = "exited",
                         !.trail = Append(@, "exited")]
    ELSE session

\* PTYSession.wait_for_exit: poll() until it gives the exit status; then a
\* session still RUNNING becomes EXITED.  A process that outlives the
\* timeout leaves the session as it was.
wait_for_exit(session) ==
    IF ~session.leader
    THEN [session EXCEPT !.reaped = TRUE,
                         !.status = IF @ = "running" THEN "exited" ELSE @,
                         !.trail = IF session.status = "running"
                                   THEN Append(@, "exited") ELSE @]
    ELSE session

MP(m, p) == [m |-> m, p |-> p]

\* PTYManager.kill: pop the session from the map and kill it
kill(m, p, session_id) ==
    IF \E i \in 1..Len(m) : m[i] = session_id
    THEN MP(SelectSeq(m, LAMBDA k : k # session_id),
            [p EXCEPT ![session_id] = session_kill(@)])
    ELSE MP(m, p)

\* PTYManager.cleanup: kill every session of the map
RECURSIVE cleanup_keys(_, _, _)
cleanup_keys(m, p, keys) ==
    IF keys = <<>> THEN MP(m, p)
    ELSE LET r == kill(m, p, Head(keys))
         IN  cleanup_keys(r.m, r.p, Tail(keys))

cleanup(m, p) == cleanup_keys(m, p, m)

\* a spawn that registers the new session without looking at the limit
spawn_unbounded(m, p, session_id, starts) ==
    IF starts THEN MP(Append(m, session_id), (session_id :> PTYSession) @@ p)
    ELSE MP(m, p)

\* PTYManager.spawn: at the limit the oldest key is killed first; the new
\* session is registered when its start succeeded (Popen may raise)
spawn(m, p, session_id, starts) ==
    LET r == IF Len(m) >= MAX_SESSIONS THEN kill(m, p, m[1]) ELSE MP(m, p)
    IN  IF starts
        THEN MP(Append(r.m, session_id), (session_id :> PTYSession) @@ r.p)
        ELSE r

\* no manager is in use
PtyIdle ==
    /\ manager = <<>>
    /\ ptys = EmptyDict
    /\ ptyOp = Op("init", 0, TRUE)
    /\ ptyBudget = [spawns |-> 0, kills |-> 0, cleanups |-> 0, forks |-> 0, exits |-> 0]

\* a new manager, used with few sessions whose processes come and go
PtyInit ==
    /\ manager = <<>>
    /\ ptys = EmptyDict
    /\ ptyOp = Op("init", 0, TRUE)
    /\ ptyBudget = [spawns |-> MaxSpawns, kills |-> MaxKills, cleanups |-> MaxCleanups,
                    forks |-> MaxForks, exits |-> MaxExits]

\* a new manager, used with more sessions than it may hold
PtyFullInit ==
    /\ manager = <<>>
    /\ ptys = EmptyDict
    /\ ptyOp = Op("init", 0, TRUE)
    /\ ptyBudget = [spawns |-> MAX_SESSIONS + ExtraSpawns, kills |-> MaxKills,
                    cleanups |-> MaxCleanups, forks |-> 0, exits |-> 0]

\* a new manager whose sessions are killed, waited for and read from while
\* their commands exit
SessionInit ==
    /\ manager = <<>>
    /\ ptys = EmptyDict
    /\ ptyOp = Op("init", 0, TRUE)
    /\ ptyBudget = [spawns |-> SessionMaxSpawns, kills |-> MaxKills,
                    cleanups |-> MaxCleanups, forks |-> MaxForks,
                    exits |-> SessionMaxExits]

\* the id of the next session (uuid4: never one that was used before)
NextId == Cardinality(DOMAIN ptys) + 1

\* spawn has no await that suspends, so concurrent callers run it one after
\* the other
PtySpawn ==
    \E starts \in BOOLEAN :
        /\ ptyBudget.spawns > 0
        /\ ptyBudget' = [ptyBudget EXCEPT !.spawns = @ - 1]
        /\ LET r == spawn(manager, ptys, NextId, starts)
           IN  manager' = r.m /\ ptys' = r.p
        /\ ptyOp' = Op("spawn", NextId, starts)
        /\ UNCHANGED <<ctxVars, wireVars, loopVars, auxVars>>

PtyKill ==
    \E session_id \in DOMAIN ptys :
        /\ ptyBudget.kills > 0
        /\ ptyBudget' = [ptyBudget EXCEPT !.kills = @ - 1]
        /\ LET r == kill(manager, ptys, session_id)
           IN  manager' = r.m /\ ptys' = r.p
        /\ ptyOp' = Op("kill", session_id, TRUE)
        /\ UNCHANGED <<ctxVars, wireVars, loopVars, auxVars>>

PtyCleanup ==
    /\ ptyBudget.cleanups > 0
    /\ ptyBudget' = [ptyBudget EXCEPT !.cleanups = @ - 1]
    /\ LET r == cleanup(manager, ptys)
       IN  manager' = r.m /\ ptys' = r.p
    /\ ptyOp' = Op("cleanup", 0, TRUE)
    /\ UNCHANGED <<ctxVars, wireVars, loopVars, auxVars>>

\* the command of a running session starts another process in its group
PtyFork ==
    \E session_id \in DOMAIN ptys :
        /\ ptyBudget.forks > 0
        /\ ptys[session_id].leader
        /\ ptyBudget' = [ptyBudget EXCEPT !.forks = @ - 1]
        /\ ptys' = [ptys EXCEPT ![session_id].others = TRUE]
        /\ UNCHANGED <<manager, ptyOp, ctxVars, wireVars, loopVars, auxVars>>

\* the command of a session exits on its own
PtyLeaderExits ==
    \E session_id \in DOMAIN ptys :
        /\ ptyBudget.exits > 0
        /\ ptys[session_id].leader
        /\ ptyBudget' = [ptyBudget EXCEPT !.exits = @ - 1]
        /\ ptys' = [ptys EXCEPT ![session_id].leader = FALSE]
        /\ UNCHANGED <<manager, ptyOp, ctxVars, wireVars, loopVars, auxVars>>

\* session.py 141-153: the reader task of a session finds that the command
\* has exited (the read of the master fd fails) and leaves its loop
PtyReaderEnds ==
    \E session_id \in DOMAIN ptys :
        /\ ptys[session_id].status = "running"
        /\ ~ptys[session_id].leader
        /\ ptys' = [ptys EXCEPT ![session_id] = _read_loop(@)]
        /\ UNCHANGED <<manager, ptyOp, ptyBudget, ctxVars, wireVars, loopVars, auxVars>>

\* session.py 299-317: a caller waits for the exit of a session
PtyWaitForExit ==
    \E session_id \in DOMAIN ptys :
        /\ ptys' = [ptys EXCEPT ![session_id] = wait_for_exit(@)]
        /\ ptyOp' = Op("wait_for_exit", session_id, ~ptys[session_id].leader)
        /\ UNCHANGED <<manager, ptyBudget, ctxVars, wireVars, loopVars, auxVars>>

PtyNext ==
    \/ PtySpawn
    \/ PtyKill
    \/ PtyCleanup
    \/ PtyFork
    \/ PtyLeaderExits
    \/ PtyReaderEnds

PtyFullNext ==
    \/ PtySpawn
    \/ PtyKill
    \/ PtyCleanup

SessionNext ==
    \/ PtySpawn
    \/ PtyKill
    \/ PtyCleanup
    \/ PtyFork
    \/ PtyLeaderExits
    \/ PtyReaderEnds
    \/ PtyWaitForExit

\* the position of the loop and of its tasks; every step of LoopNext changes it
LoopProgress == <<loop.pc, loop.step_no, NumPending(cur), orphans>>

LoopNext ==
    \/ LoopBegin
    \/ LoopCompactionRaises
    \/ LoopExhausted
    \/ GenerateRaises
    \/ GenerateFinal
    \/ GenerateToolCalls
    \/ ToolFinish
    \/ StepReturns
    \/ DMailRevert
    \/ DMailUnknownCheckpoint
    \/ OrphanFinish

(***************************************************************************)
(* pty/buffer.py: the rolling buffer of a session's output.  A line is a   *)
(* sequence of characters; the two deques are sequences of lines.          *)
(***************************************************************************)
\* RollingBuffer.__init__
RollingBuffer(max_lines) ==
    [_lines |-> <<>>, _raw_lines |-> <<>>, _total_lines |-> 0, max_lines |-> max_lines,
     _data_event |-> "None", scheduled |-> 0]

\* RollingBuffer.attach_loop: a new asyncio.Event; scheduled counts the
\* _data_event.set callbacks the loop has been handed and has not yet run
attach_loop(b) == [b EXCEPT !._data_event = "clear"]

\* buffer.py 57-58, 78-79: with a loop attached, ask it to set the event
signal_waiters(b) ==
    IF b._data_event # "None" THEN [b EXCEPT !.scheduled = @ + 1] ELSE b

\* deque(maxlen=...).append: a full deque drops its first item
deque_append(q, x, maxlen) ==
    IF maxlen = 0 THEN <<>>
    ELSE IF Len(q) >= maxlen THEN Append(Tail(q), x)
    ELSE Append(q, x)

\* an optional string argument: None, or a string
NoStr == [is_none |-> TRUE, value |-> <<>>]

Str(value) == [is_none |-> FALSE, value |-> value]

\* one line put on both tracks, as done while the lock is held
append_locked(b, line, raw_line) ==
    [b EXCEPT !._lines = deque_append(@, line, b.max_lines),
              !._raw_lines = deque_append(@, IF ~raw_line.is_none THEN raw_line.value
                                             ELSE line,
                                          b.max_lines),
              !._total_lines = @ + 1]

\* RollingBuffer.append
buffer_append(b, line, raw_line) == signal_waiters(append_locked(b, line, raw_line))

RECURSIVE append_pairs(_, _, _)
append_pairs(b, cleaned_lines, raw_lines) ==
    IF cleaned_lines = <<>> \/ raw_lines = <<>> THEN b
    ELSE append_pairs(append_locked(b, Head(cleaned_lines), Str(Head(raw_lines))),
                      Tail(cleaned_lines), Tail(raw_lines))

RECURSIVE append_track(_, _, _)
append_track(q, lines, maxlen) ==
    IF lines = <<>> THEN q
    ELSE append_track(deque_append(q, Head(lines), maxlen), Tail(lines), maxlen)

\* an append_text that fills each track with the lines of its own text
append_text_by_track(b, text, raw_text) ==
    LET cleaned_lines == SplitLines(text)
        raw_lines == SplitLines(IF ~raw_text.is_none /\ raw_text.value # <<>>
                                THEN raw_text.value ELSE text)
    IN  [b EXCEPT !._lines = append_track(@, cleaned_lines, b.max_lines),
                  !._raw_lines = append_track(@, raw_lines, b.max_lines),
                  !._total_lines = @ + Len(cleaned_lines)]

\* RollingBuffer.append_text: split both texts at the newlines, pad the raw
\* lines with empty ones, append the zipped pairs
buffer_append_text(b, text, raw_text) ==
    LET cleaned_lines == SplitLines(text)
        raw_lines == SplitLines(IF ~raw_text.is_none /\ raw_text.value # <<>>
                                THEN raw_text.value ELSE text)
        padded == raw_lines \o [i \in 1..(Len(cleaned_lines) - Len(raw_lines)) |-> <<>>]
    IN  signal_waiters(append_pairs(b, cleaned_lines, padded))

\* list slicing lines[start:end] for 0 <= start
Slice(lines, start, end) ==
    LET stop == IF end < 0 THEN IF Len(lines) + end < 0 THEN 0 ELSE Len(lines) + end
                ELSE IF end > Len(lines) THEN Len(lines) ELSE end
    IN  SubSeq(lines, start + 1, stop)

Min(a, b) == IF a <= b THEN a ELSE b

\* RollingBuffer.read
buffer_read(b, offset, limit) ==
    LET start == Min(offset, Len(b._lines))
        end == Min(start + limit, Len(b._lines))
    IN  Slice(b._lines, start, end)

\* RollingBuffer.search, for a pattern given by the set of lines it is found
\* in (or one that re.compile rejects): the pairs (index, line) of the first limit matching lines
RECURSIVE search_from(_, _, _, _)
search_from(lines, i, compiled, limit) ==
    IF i > Len(lines) \/ limit <= 0 THEN <<>>
    ELSE IF lines[i] \in compiled
         THEN <<<<i - 1, lines[i]>>>> \o search_from(lines, i + 1, compiled, limit - 1)
         ELSE search_from(lines, i + 1, compiled, limit)

buffer_search(b, compiled, limit) ==
    IF ~compiled.valid THEN <<>>
    ELSE IF limit <= 0 /\ \E i \in 1..Len(b._lines) : b._lines[i] \in compiled.found
    THEN LET first == CHOOSE i \in 1..Len(b._lines) :
                          /\ b._lines[i] \in compiled.found
                          /\ \A j \in 1..(i - 1) : b._lines[j] \notin compiled.found
         IN  <<<<first - 1, b._lines[first]>>>>
    ELSE search_from(b._lines, 1, compiled.found, limit)

line_count(b) == Len(b._lines)

total_lines(b) == b._total_lines

\* RollingBuffer.clear
buffer_clear(b) ==
    [b EXCEPT !._lines = <<>>, !._raw_lines = <<>>, !._total_lines = 0]

\* the cleaned lines of the model; the prompt is the line patterns look for
CleanLines == {<<"a">>, <<"$">>}

\* the raw form of a line, when one is given: the line behind an escape code
RawLines == {NoStr, Str(<<"ESC[0m", "a">>)}

\* texts as the reader task appends them, and texts whose raw form has more
\* or fewer lines than the cleaned one
Texts ==
    {<<<<"a", "\n", "$">>, Str(<<"ESC[0m", "a", "\n", "$">>)>>,
     <<<<"a", "\n">>, NoStr>>,
     <<<<"a">>, Str(<<"a", "\n", "ESC[0m">>)>>,
     <<<<"a", "\n", "$">>, Str(<<"ESC[0m">>)>>}

\* patterns: one that finds the prompt, one that finds nothing, one that
\* re.compile rejects
Patterns ==
    {[valid |-> TRUE, found |-> {<<"$">>}], [valid |-> TRUE, found |-> {}],
     [valid |-> FALSE, found |-> {}]}

\* the limits read and search are called with: one line, or their defaults
ReadLimits == {1, 500}

SearchLimits == {1, 50}

NoCall == [pc |-> "idle", before |-> 0, compiled |-> {}, since |-> <<>>,
           result |-> <<>>, by |-> "none"]

\* nobody has called wait_for_data: seen is total_lines at the last call
\* that returned true, before what seen was when the last call began, at
\* total_lines when the last call returned
NoWaiter == [pc |-> "idle", result |-> "none", calls |-> 0,
             seen |-> 0, before |-> 0, at |-> 0]

\* no buffer is in use
BufIdle ==
    /\ buffer = RollingBuffer(0)
    /\ written = <<>>
    /\ bufOp = [op |-> "init", result |-> None]
    /\ bufBudget = [appends |-> 0, texts |-> 0, clears |-> 0]
    /\ call = NoCall
    /\ waiter = NoWaiter

\* truncate_output is not in use
TruncIdle ==
    /\ truncIn = [text |-> <<>>, max_lines |-> 0, max_bytes |-> 0, save_full |-> FALSE]
    /\ truncOut = [done |-> FALSE, content |-> <<>>]

\* tool outputs: texts of plain and two-byte characters and newlines
Outputs == UNION {[1..n -> {"a", "é", "\n"}] : n \in 0..MaxTextLen}

\* a tool output, and small limits in the place of MAX_LINES and MAX_BYTES
TruncInit ==
    /\ truncIn \in [text : Outputs, max_lines : 1..MaxTruncLines,
                     max_bytes : 1..MaxTruncBytes, save_full : BOOLEAN]
    /\ truncOut = [done |-> FALSE, content |-> <<>>]

\* base.py 94: the tool's output goes through truncate_output
Truncate ==
    /\ ~truncOut.done
    /\ truncOut' = [done |-> TRUE,
                    content |-> truncate_output(truncIn.text, truncIn.max_lines,
                                                truncIn.max_bytes, truncIn.save_full)]
    /\ UNCHANGED <<truncIn, ctxVars, wireVars, loopVars, ptyVars, bufVars, retryVars, modelVars, orchVars>>

TruncNext == Truncate

(***************************************************************************)
(* model/binary.py and model/hypothesis.py: the shared BinaryModel.  An    *)
(* optional address is a record; a confidence is the text of the float.    *)
(***************************************************************************)
NoInt == [is_none |-> TRUE, value |-> 0]

SomeInt(value) == [is_none |-> FALSE, value |-> value]

Observation(id, type, data, address) ==
    [id |-> id, type |-> type, source |-> <<>>, address |-> address, data |-> data]

Hypothesis(id, description, category, confidence, address, evidence) ==
    [id |-> id, description |-> description, category |-> category,
     confidence |-> confidence, evidence |-> evidence, status |-> "proposed",
     proposed_by |-> <<>>, verified_by |-> None, address |-> address]

Finding(id, description, category, addresses, evidence, verified, verified_by, details) ==
    [id |-> id, description |-> description, category |-> category,
     addresses |-> addresses, evidence |-> evidence, verified |-> verified,
     verified_by |-> verified_by, details |-> details]

\* promote_hypothesis returned None
NoFinding == [is_none |-> TRUE, value |-> Finding(<<>>, <<>>, <<>>, <<>>, <<>>, FALSE, <<>>, EmptyDict)]

SomeFinding(finding) == [is_none |-> FALSE, value |-> finding]

NewBinaryModel == [observations |-> <<>>, hypotheses |-> <<>>, findings |-> <<>>]

add_observation(m, obs) == [m EXCEPT !.observations = Append(@, obs)]

add_hypothesis(m, hyp) == [m EXCEPT !.hypotheses = Append(@, hyp)]

add_finding(m, finding) == [m EXCEPT !.findings = Append(@, finding)]

\* Hypothesis.confirm(agent) without additional evidence
confirm(hyp, agent_) ==
    [hyp EXCEPT !.status = "confirmed", !.verified_by = agent_, !.confidence = "1.0"]

\* the position of the first hypothesis with this id, 0 when there is none
get_hypothesis(m, hypothesis_id) ==
    LET found == {i \in 1..Len(m.hypotheses) : m.hypotheses[i].id = hypothesis_id}
    IN  IF found = {} THEN 0 ELSE CHOOSE i \in found : \A j \in found : i <= j

\* a promotion that takes the address 0 for no address
promote_hypothesis_dropping_zero(m, hypothesis_id, agent_, details, finding_id) ==
    LET i == get_hypothesis(m, hypothesis_id)
        hyp == m.hypotheses[i]
        finding == Finding(finding_id, hyp.description, hyp.category,
                           IF ~hyp.address.is_none /\ hyp.address.value # 0
                           THEN <<hyp.address.value>> ELSE <<>>,
                           hyp.evidence, TRUE, agent_, details)
    IN  IF i = 0 THEN [m |-> m, finding |-> NoFinding]
        ELSE [m |-> [m EXCEPT !.hypotheses[i] = confirm(hyp, agent_),
                              !.findings = Append(@, finding)],
              finding |-> SomeFinding(finding)]

\* the model after promote_hypothesis and what it returns; details is the
\* dict after "details or {}", finding_id what _gen_id gives the Finding
promote_hypothesis(m, hypothesis_id, agent_, details, finding_id) ==
    LET i == get_hypothesis(m, hypothesis_id)
        hyp == m.hypotheses[i]
        finding == Finding(finding_id, hyp.description, hyp.category,
                           IF ~hyp.address.is_none THEN <<hyp.address.value>> ELSE <<>>,
                           hyp.evidence, TRUE, agent_, details)
    IN  IF i = 0 THEN [m |-> m, finding |-> NoFinding]
        ELSE [m |-> [m EXCEPT !.hypotheses[i] = confirm(hyp, agent_),
                              !.findings = Append(@, finding)],
              finding |-> SomeFinding(finding)]

\* the ids that uuid4 hands out, and an id that no hypothesis has
HypothesisIds == {<<"h1">>, <<"h2">>}

PromotedIds == HypothesisIds \cup {<<"nonexistent">>}

FindingIds == {<<"f1">>}

Addresses == {NoInt, SomeInt(0)}

Evidence == {<<>>, <<<<"o1">>>>}

ModelOp(op, arg, returned) == [op |-> op, arg |-> arg, returned |-> returned]

\* no model is in use
ModelIdle ==
    /\ model = NewBinaryModel
    /\ modelOp = ModelOp("init", <<>>, NoFinding)
    /\ modelBudget = [adds |-> 0, promotes |-> 0]

ModelInit ==
    /\ model = NewBinaryModel
    /\ modelOp = ModelOp("init", <<>>, NoFinding)
    /\ modelBudget = [adds |-> MaxModelAdds, promotes |-> MaxPromotes]

ModelAddObservation ==
    /\ modelBudget.adds > 0
    /\ modelBudget' = [modelBudget EXCEPT !.adds = @ - 1]
    /\ model' = add_observation(model, Observation(<<"o1">>, <<"info">>, <<"d">>, NoInt))
    /\ modelOp' = ModelOp("add_observation", <<"o1">>, NoFinding)
    /\ UNCHANGED <<ctxVars, wireVars, loopVars, ptyVars, bufVars, truncVars, retryVars,
                   orchVars>>

ModelAddHypothesis ==
    \E id \in HypothesisIds, address \in Addresses, evidence \in Evidence :
        /\ modelBudget.adds > 0
        /\ modelBudget' = [modelBudget EXCEPT !.adds = @ - 1]
        /\ model' = add_hypothesis(model, Hypothesis(id, <<"XOR cipher">>, <<"crypto">>,
                                                     "0.5", address, evidence))
        /\ modelOp' = ModelOp("add_hypothesis", id, NoFinding)
        /\ UNCHANGED <<ctxVars, wireVars, loopVars, ptyVars, bufVars, truncVars,
                       retryVars, orchVars>>

ModelAddFinding ==
    \E id \in FindingIds :
        /\ modelBudget.adds > 0
        /\ modelBudget' = [modelBudget EXCEPT !.adds = @ - 1]
        /\ model' = add_finding(model, Finding(id, <<"direct">>, <<"general">>, <<>>,
                                               <<>>, TRUE, <<"orchestrator">>, EmptyDict))
        /\ modelOp' = ModelOp("add_finding", id, NoFinding)
        /\ UNCHANGED <<ctxVars, wireVars, loopVars, ptyVars, bufVars, truncVars,
                       retryVars, orchVars>>

ModelPromote ==
    \E id \in PromotedIds, finding_id \in FindingIds :
        /\ modelBudget.promotes > 0
        /\ modelBudget' = [modelBudget EXCEPT !.promotes = @ - 1]
        /\ LET r == promote_hypothesis(model, id, <<"static">>, EmptyDict, finding_id)
           IN  /\ model' = r.m
               /\ modelOp' = ModelOp("promote_hypothesis", id, r.finding)
        /\ UNCHANGED <<ctxVars, wireVars, loopVars, ptyVars, bufVars, truncVars,
                       retryVars, orchVars>>

ModelNext ==
    \/ ModelAddObservation
    \/ ModelAddHypothesis
    \/ ModelAddFinding
    \/ ModelPromote

(***************************************************************************)
(* agent/orchestrator.py, tui/bridge.py, tui/app.py, cli.py: a session.    *)
(* The caller runs agent_loop for the orchestrator, whose tools record     *)
(* knowledge, spawn a shell session, send a D-Mail and dispatch subagents; *)
(* every subagent runs agent_loop on a Context of its own.  The context    *)
(* stays below the provider's window, so no step compacts.  A step of a    *)
(* subagent from the provider's reply to the growth of its context is one  *)
(* action.                                                                 *)
(***************************************************************************)
OrchestratorName == <<"orchestrator">>

\* the agent that the n-th dispatch_subagent call of a reply names
AgentNames == <<<<"static">>, <<"dynamic">>>>

\* the tool calls of the orchestrator's replies
OrchPlans ==
    {<<"update_model", "shell", "send_dmail">>, <<"dispatch_subagent", "dispatch_subagent">>}

\* bridge.py: the events of the callbacks
StepBeginEvent(step_no, agent_name) ==
    WireEvent("step_begin", [step |-> step_no, agent |-> agent_name])

TextEvent == WireEvent("text", [text |-> <<"t">>])

ToolCallEvent(name, id) == WireEvent("tool_call", [name |-> name, id |-> id])

ToolResultEvent(name, id, is_error) ==
    WireEvent("tool_result", [name |-> name, id |-> id, content |-> <<"r">>,
                              is_error |-> is_error])

UsageEvent == WireEvent("status", [tokens |-> 1])

DMailEvent(checkpoint_id) ==
    WireEvent("dmail", [checkpoint_id |-> checkpoint_id, message |-> <<"m">>])

\* make_subagent_callbacks: the same events with the agent's name in them
Tagged(event, agent_name) ==
    WireEvent(event.type, [k \in DOMAIN event.data \cup {"agent"} |->
                              IF k = "agent" THEN agent_name ELSE event.data[k]])

SubagentBegin(agent_name) == WireEvent("subagent_begin", [agent |-> agent_name])

SubagentEnd(agent_name) == WireEvent("subagent_end", [agent |-> agent_name])

\* the queues after these events were sent one after the other
RECURSIVE send_each(_, _, _)
send_each(w, qs, events) ==
    IF events = <<>> THEN qs
    ELSE send_each(w, send(w, qs, Head(events)), Tail(events))

\* a tool call of the orchestrator's step and the task that runs it
Task(step_no, id, tool) ==
    [step |-> step_no, id |-> id, tool |-> tool, state |-> "pending", sub |-> 0,
     orphan |-> FALSE]

Act(act, who) == [act |-> act, who |-> who]

NoRun ==
    [pc |-> "idle", step_no |-> 0, max_steps |-> 0, context |-> 0, outcome |-> None,
     ui |-> "none", tasks |-> <<>>, last |-> Act("init", 0)]

\* a _run_subagent call for the task of a dispatch_subagent call
SubagentRun(agent_name, context_ref, task) ==
    [pc |-> "while", step_no |-> 0, max_steps |-> SubMaxSteps, context |-> context_ref,
     name |-> agent_name, outcome |-> None, task |-> task]

\* a subagent that takes the context of its caller
subagent_context_shared(cs) == 1

\* orchestrator.py 345-347: Context(path=...) in a new temporary directory
\* is a new object with a file of its own
subagent_context(cs) == Len(cs) + 1

Put(cs, ref, r) ==
    IF ref = Len(cs) + 1 THEN Append(cs, [c |-> r.c, d |-> r.d])
    ELSE [cs EXCEPT ![ref] = [c |-> r.c, d |-> r.d]]

AssistantWith(calls) ==
    Message("assistant",
            [i \in 1..Len(calls) |-> ToolCallPart(str(i), calls[i], JsonText(EmptyDict))])

ResultsOf(calls) == [i \in 1..Len(calls) |-> MessageToolResult(str(i), <<"r">>, FALSE)]

FinalReply == Message("assistant", <<TextPart(<<"t">>)>>)

\* the variables that no step of a session changes
orchFrame ==
    <<ctxVars, loopVars, bufVars, truncVars, retryVars, taken, due, sends, closes,
      present, ptyOp, ptyBudget, modelOp, modelBudget>>

\* no session is running
OrchIdle ==
    /\ contexts = <<>>
    /\ orch = NoRun
    /\ subs = <<>>

\* cli.py 436-461, app.py 452-462: the consumer has subscribed, the goal is
\* in the session's context, the TUI has sent the status line with the
\* agents and tools, agent_loop is called
OrchInit ==
    /\ contexts = <<[c |-> SeedGoal.c, d |-> SeedGoal.d]>>
    /\ subs = <<>>
    /\ wire = subscribe(NewWire, EmptyDict).w
    /\ \E ui \in {"cli", "tui"} :
          /\ orch = [NoRun EXCEPT !.pc = "while", !.max_steps = OrchMaxSteps,
                                  !.context = 1, !.ui = ui]
          /\ queues = IF ui = "tui"
                      THEN send_status(subscribe(NewWire, EmptyDict).w,
                                       subscribe(NewWire, EmptyDict).qs, <<"Agents">>)
                      ELSE subscribe(NewWire, EmptyDict).qs
    /\ taken = EmptyDict
    /\ due = EmptyDict
    /\ sends = [calls |-> 0, after_close |-> 0]
    /\ closes = 0
    /\ present = {}

\* the tasks of the gather that the orchestrator's step waits for
Current(i) ==
    /\ orch.tasks[i].step = orch.step_no
    /\ ~orch.tasks[i].orphan

\* streaming.py 252-253: gather starts the tasks in the order of the calls,
\* and a task runs until its first await
Startable(i) ==
    /\ orch.tasks[i].state = "pending"
    /\ \A j \in 1..(i - 1) : orch.tasks[j].state # "pending"

\* loop.py 93-111: the orchestrator's loop takes a checkpoint and begins a step
OrchBegin ==
    /\ orch.pc = "while"
    /\ orch.step_no < orch.max_steps
    /\ contexts' = Put(contexts, 1, checkpoint(contexts[1].c, contexts[1].d))
    /\ queues' = send(wire, queues, StepBeginEvent(orch.step_no + 1, OrchestratorName))
    /\ orch' = [orch EXCEPT !.pc = "step", !.step_no = @ + 1,
                            !.last = Act("checkpoint", 0)]
    /\ UNCHANGED <<wire, subs, model, manager, ptys, orchFrame>>

\* loop.py 93, 190-191
OrchExhausted ==
    /\ orch.pc = "while"
    /\ ~(orch.step_no < orch.max_steps)
    /\ orch' = [orch EXCEPT !.pc = "returned", !.outcome = "MAX_STEPS",
                            !.last = Act("return", 0)]
    /\ UNCHANGED <<wire, queues, contexts, subs, model, manager, ptys, orchFrame>>

\* loop.py 161-169: step raises, the loop logs the error and returns ERROR
OrchProviderRaises ==
    /\ orch.pc = "step"
    /\ orch' = [orch EXCEPT !.pc = "returned", !.outcome = "ERROR",
                            !.last = Act("return", 0)]
    /\ UNCHANGED <<wire, queues, contexts, subs, model, manager, ptys, orchFrame>>

\* loop.py 172-186: a reply without tool calls
OrchFinal ==
    /\ orch.pc = "step"
    /\ contexts' = Put(contexts, 1, grow(contexts[1].c, contexts[1].d, FinalReply, <<>>))
    /\ queues' = send_each(wire, queues, <<TextEvent, UsageEvent>>)
    /\ orch' = [orch EXCEPT !.pc = "returned", !.outcome = "COMPLETE",
                            !.last = Act("grow", 0)]
    /\ UNCHANGED <<wire, subs, model, manager, ptys, orchFrame>>

Dispatches(plan) ==
    Cardinality({i \in 1..Len(plan) : plan[i] = "dispatch_subagent"})

Started == Cardinality({i \in 1..Len(orch.tasks) : orch.tasks[i].tool = "dispatch_subagent"})

\* streaming.py 230-253: a reply with tool calls; one task per call
OrchToolCalls ==
    /\ orch.pc = "step"
    /\ \E plan \in OrchPlans :
          /\ Started + Dispatches(plan) <= MaxSubagents
          /\ queues' = send_each(wire, queues,
                                 [i \in 1..Len(plan) |-> ToolCallEvent(plan[i], str(i))])
          /\ orch' = [orch EXCEPT !.pc = "gather",
                          !.tasks = @ \o [i \in 1..Len(plan) |->
                                            Task(orch.step_no, i, plan[i])],
                          !.last = Act("tool_calls", 0)]
    /\ UNCHANGED <<wire, contexts, subs, model, manager, ptys, orchFrame>>

\* orchestrator.py 202-229: update_model records an observation
TaskUpdateModel ==
    \E i \in 1..Len(orch.tasks) :
        /\ Startable(i)
        /\ orch.tasks[i].tool = "update_model"
        /\ model' = add_observation(model, Observation(str(Len(model.observations) + 1),
                                                       <<"general">>, <<"d">>, NoInt))
        /\ queues' = send_each(wire, send_observation(wire, queues, <<"d">>, <<"general">>),
                               <<ToolResultEvent("update_model", str(orch.tasks[i].id), FALSE)>>)
        /\ orch' = [orch EXCEPT !.tasks[i].state = "done", !.last = Act("update_model", 0)]
        /\ UNCHANGED <<wire, contexts, subs, manager, ptys, orchFrame>>

\* shell.py 87-101: the shell tool spawns its session and waits for output
TaskShell ==
    \E i \in 1..Len(orch.tasks) :
        /\ Startable(i)
        /\ orch.tasks[i].tool = "shell"
        /\ LET r == spawn(manager, ptys, NextId, TRUE)
           IN  manager' = r.m /\ ptys' = r.p
        /\ orch' = [orch EXCEPT !.tasks[i].state = "running", !.last = Act("shell", 0)]
        /\ UNCHANGED <<wire, queues, contexts, subs, model, orchFrame>>

\* streaming.py 240-250: the shell tool returns, also after the gather that
\* started it was left by a D-Mail
TaskShellReturns ==
    \E i \in 1..Len(orch.tasks) :
        /\ orch.tasks[i].state = "running"
        /\ orch.tasks[i].tool = "shell"
        /\ queues' = send(wire, queues, ToolResultEvent("shell", str(orch.tasks[i].id), FALSE))
        /\ orch' = [orch EXCEPT !.tasks[i].state = "done", !.last = Act("return", 0)]
        /\ UNCHANGED <<wire, contexts, subs, model, manager, ptys, orchFrame>>

\* dmail.py 75: send_dmail raises the revert signal
TaskDMail ==
    \E i \in 1..Len(orch.tasks) :
        /\ Startable(i)
        /\ orch.tasks[i].tool = "send_dmail"
        /\ orch' = [orch EXCEPT !.tasks[i].state = "raised", !.last = Act("send_dmail", 0)]
        /\ UNCHANGED <<wire, queues, contexts, subs, model, manager, ptys, orchFrame>>

\* orchestrator.py 345-376: _run_subagent makes its context, appends the
\* task to it and sends SUBAGENT_BEGIN
TaskDispatch ==
    \E i \in 1..Len(orch.tasks) :
        /\ Startable(i)
        /\ orch.tasks[i].tool = "dispatch_subagent"
        /\ LET ref == subagent_context(contexts)
               name == AgentNames[orch.tasks[i].id]
           IN  /\ contexts' = Put(contexts, ref,
                                  append(NewContext, NoFile, MessageUser(<<"task">>)))
               /\ subs' = Append(subs, SubagentRun(name, ref, i))
               /\ queues' = send(wire, queues, SubagentBegin(name))
        /\ orch' = [orch EXCEPT !.tasks[i].state = "running", !.tasks[i].sub = Len(subs) + 1,
                                !.last = Act("dispatch", Len(subs) + 1)]
        /\ UNCHANGED <<wire, model, manager, ptys, orchFrame>>

\* loop.py 171-188: every task of the gather returned
OrchStepReturns ==
    /\ orch.pc = "gather"
    /\ \A i \in 1..Len(orch.tasks) : Current(i) => orch.tasks[i].state = "done"
    /\ LET calls == SelectSeq(orch.tasks, LAMBDA t : t.step = orch.step_no)
           tools == [i \in 1..Len(calls) |-> <<calls[i].tool>>]
       IN  contexts' = Put(contexts, 1, grow(contexts[1].c, contexts[1].d,
                                             AssistantWith(tools), ResultsOf(tools)))
    /\ queues' = send(wire, queues, UsageEvent)
    /\ orch' = [orch EXCEPT !.pc = "while", !.last = Act("grow", 0)]
    /\ UNCHANGED <<wire, subs, model, manager, ptys, orchFrame>>

\* a revert after which the knowledge recorded so far is forgotten
OrchDMailForgetting ==
    /\ orch.pc = "gather"
    /\ \E i \in 1..Len(orch.tasks) : Current(i) /\ orch.tasks[i].state = "raised"
    /\ LET r1 == revert_to(contexts[1].c, contexts[1].d, 0)
           r2 == append_system(r1.c, r1.d, DMailNote(<<"m">>))
       IN  contexts' = Put(contexts, 1, r2)
    /\ queues' = send(wire, queues, DMailEvent(0))
    /\ orch' = [orch EXCEPT !.pc = "while",
                    !.tasks = [i \in 1..Len(@) |->
                                  IF Current(i) THEN [@[i] EXCEPT !.orphan = TRUE] ELSE @[i]],
                    !.last = Act("revert", 0)]
    /\ model' = NewBinaryModel
    /\ UNCHANGED <<wire, subs, manager, ptys, orchFrame>>

\* loop.py 148-160: the gather raised the revert signal of send_dmail (for
\* checkpoint 0); on_dmail, revert_to, append_system; the other tasks of the
\* gather go on running
OrchDMail ==
    /\ orch.pc = "gather"
    /\ \E i \in 1..Len(orch.tasks) : Current(i) /\ orch.tasks[i].state = "raised"
    /\ LET r1 == revert_to(contexts[1].c, contexts[1].d, 0)
           r2 == append_system(r1.c, r1.d, DMailNote(<<"m">>))
       IN  contexts' = Put(contexts, 1, r2)
    /\ queues' = send(wire, queues, DMailEvent(0))
    /\ orch' = [orch EXCEPT !.pc = "while",
                    !.tasks = [i \in 1..Len(@) |->
                                  IF Current(i) THEN [@[i] EXCEPT !.orphan = TRUE] ELSE @[i]],
                    !.last = Act("revert", 0)]
    /\ UNCHANGED <<wire, subs, model, manager, ptys, orchFrame>>

\* the task of a subagent's dispatch_subagent call returns its tool result
\* (orchestrator.py 118-141, streaming.py 238-250)
Returns(k, is_error) ==
    [orch EXCEPT !.tasks[subs[k].task].state = "done", !.last = Act("return", k)]

ToolResultOf(k, is_error) ==
    ToolResultEvent("dispatch_subagent", str(orch.tasks[subs[k].task].id), is_error)

\* loop.py 93: the subagent's loop enters its next step
CanStep(k) ==
    /\ subs[k].pc = "while"
    /\ subs[k].step_no < subs[k].max_steps

\* loop.py 94-111 in a subagent: the step's checkpoint in the subagent's
\* context, and its STEP_BEGIN event
Checkpointed(k) == checkpoint(contexts[subs[k].context].c, contexts[subs[k].context].d)

SubStepBegin(k) ==
    Tagged(StepBeginEvent(subs[k].step_no + 1, subs[k].name), subs[k].name)

\* loop.py 190-191, orchestrator.py 398: MAX_STEPS, on_end
SubExhausted ==
    \E k \in 1..Len(subs) :
        /\ subs[k].pc = "while"
        /\ ~(subs[k].step_no < subs[k].max_steps)
        /\ queues' = send_each(wire, queues,
                               <<SubagentEnd(subs[k].name), ToolResultOf(k, FALSE)>>)
        /\ subs' = [subs EXCEPT ![k].pc = "ended", ![k].outcome = "MAX_STEPS"]
        /\ orch' = Returns(k, FALSE)
        /\ UNCHANGED <<wire, contexts, model, manager, ptys, orchFrame>>

\* loop.py 161-169, orchestrator.py 398: the step raises; ERROR, on_end
SubProviderRaises ==
    \E k \in 1..Len(subs) :
        /\ CanStep(k)
        /\ contexts' = Put(contexts, subs[k].context, Checkpointed(k))
        /\ queues' = send_each(wire, queues,
                               <<SubStepBegin(k), SubagentEnd(subs[k].name),
                                 ToolResultOf(k, FALSE)>>)
        /\ subs' = [subs EXCEPT ![k].pc = "ended", ![k].step_no = @ + 1,
                                ![k].outcome = "ERROR"]
        /\ orch' = Returns(k, FALSE)
        /\ UNCHANGED <<wire, model, manager, ptys, orchFrame>>

\* loop.py 172-186, orchestrator.py 398: a reply without tool calls;
\* COMPLETE, on_end
SubFinal ==
    \E k \in 1..Len(subs) :
        /\ CanStep(k)
        /\ contexts' = Put(contexts, subs[k].context,
                           grow(Checkpointed(k).c, Checkpointed(k).d, FinalReply, <<>>))
        /\ queues' = send_each(wire, queues,
                               <<SubStepBegin(k), Tagged(TextEvent, subs[k].name),
                                 Tagged(UsageEvent, subs[k].name),
                                 SubagentEnd(subs[k].name), ToolResultOf(k, FALSE)>>)
        /\ subs' = [subs EXCEPT ![k].pc = "ended", ![k].step_no = @ + 1,
                                ![k].outcome = "COMPLETE"]
        /\ orch' = Returns(k, FALSE)
        /\ UNCHANGED <<wire, model, manager, ptys, orchFrame>>

\* a subagent's step whose reply calls update_model
SubUpdateModel ==
    \E k \in 1..Len(subs) :
        /\ CanStep(k)
        /\ model' = add_observation(model, Observation(str(Len(model.observations) + 1),
                                                       <<"general">>, <<"d">>, NoInt))
        /\ contexts' = Put(contexts, subs[k].context,
                           grow(Checkpointed(k).c, Checkpointed(k).d,
                                AssistantWith(<<<<"update_model">>>>),
                                ResultsOf(<<<<"update_model">>>>)))
        /\ queues' = send_each(wire,
                        send_observation(wire,
                            send_each(wire, queues,
                                      <<SubStepBegin(k),
                                        Tagged(ToolCallEvent("update_model", "1"),
                                               subs[k].name)>>),
                            <<"d">>, <<"general">>),
                        <<Tagged(ToolResultEvent("update_model", "1", FALSE), subs[k].name),
                          Tagged(UsageEvent, subs[k].name)>>)
        /\ subs' = [subs EXCEPT ![k].step_no = @ + 1]
        /\ orch' = [orch EXCEPT !.last = Act("grow", k)]
        /\ UNCHANGED <<wire, manager, ptys, orchFrame>>

\* loop.py 148-160 in a subagent: a D-Mail to a checkpoint of its context
SubDMail ==
    \E k \in 1..Len(subs) :
        /\ CanStep(k)
        /\ LET r1 == revert_to(Checkpointed(k).c, Checkpointed(k).d, 0)
               r2 == append_system(r1.c, r1.d, DMailNote(<<"m">>))
           IN  contexts' = Put(contexts, subs[k].context, r2)
        /\ queues' = send_each(wire, queues,
                               <<SubStepBegin(k),
                                 Tagged(ToolCallEvent("send_dmail", "1"), subs[k].name),
                                 Tagged(DMailEvent(0), subs[k].name)>>)
        /\ subs' = [subs EXCEPT ![k].step_no = @ + 1]
        /\ orch' = [orch EXCEPT !.last = Act("revert", k)]
        /\ UNCHANGED <<wire, model, manager, ptys, orchFrame>>

\* loop.py 152-154, context 70-71: a D-Mail to a checkpoint that the
\* subagent's context does not hold; revert_to raises ValueError, which
\* leaves agent_loop and _run_subagent, and dispatch_subagent returns a
\* ToolError (orchestrator.py 136-141)
SubDMailUnknownCheckpoint ==
    \E k \in 1..Len(subs) :
        /\ CanStep(k)
        /\ UnknownCheckpoint \notin DOMAIN Checkpointed(k).c.checkpoints
        /\ contexts' = Put(contexts, subs[k].context, Checkpointed(k))
        /\ queues' = send_each(wire, queues,
                               <<SubStepBegin(k),
                                 Tagged(ToolCallEvent("send_dmail", "1"), subs[k].name),
                                 Tagged(DMailEvent(UnknownCheckpoint), subs[k].name),
                                 ToolResultOf(k, TRUE)>>)
        /\ subs' = [subs EXCEPT ![k].pc = "raised", ![k].step_no = @ + 1]
        /\ orch' = Returns(k, TRUE)
        /\ UNCHANGED <<wire, model, manager, ptys, orchFrame>>

\* the worker that runs the session's agent_loop is cancelled while the
\* loop waits for its tools: the gather cancels its tasks, CancelledError
\* leaves the subagents' loops and the orchestrator's
SessionCancelled ==
    /\ orch.ui = "tui"
    /\ orch.pc = "gather"
    /\ subs' = [k \in 1..Len(subs) |->
                  IF subs[k].pc = "while" /\ Current(subs[k].task)
                  THEN [subs[k] EXCEPT !.pc = "cancelled"] ELSE subs[k]]
    /\ orch' = [orch EXCEPT !.pc = "cancelled",
                    !.tasks = [i \in 1..Len(@) |->
                                  IF Current(i) /\ @[i].state \in {"pending", "running"}
                                  THEN [@[i] EXCEPT !.state = "cancelled"] ELSE @[i]],
                    !.last = Act("cancel", 0)]
    /\ UNCHANGED <<wire, queues, contexts, model, manager, ptys, orchFrame>>

\* cli.py 479-482: cleanup of the PTY sessions, wire.close()
CliCloses ==
    /\ orch.ui = "cli"
    /\ orch.pc = "returned"
    /\ LET r == cleanup(manager, ptys) IN manager' = r.m /\ ptys' = r.p
    /\ LET r == close(wire, queues) IN wire' = r.w /\ queues' = r.qs
    /\ orch' = [orch EXCEPT !.pc = "closed", !.last = Act("close", 0)]
    /\ UNCHANGED <<contexts, subs, model, orchFrame>>

\* app.py 478-484: send_status with the outcome, then the finally block;
\* after a cancellation only the finally block
TuiCloses ==
    /\ orch.ui = "tui"
    /\ orch.pc \in {"returned", "cancelled"}
    /\ LET r == cleanup(manager, ptys) IN manager' = r.m /\ ptys' = r.p
    /\ LET qs == IF orch.pc = "returned"
                 THEN send_status(wire, queues, <<"Analysis complete: ", orch.outcome>>)
                 ELSE queues
           r == close(wire, qs)
       IN  wire' = r.w /\ queues' = r.qs
    /\ orch' = [orch EXCEPT !.pc = "closed", !.last = Act("close", 0)]
    /\ UNCHANGED <<contexts, subs, model, orchFrame>>

OrchNext ==
    \/ OrchBegin
    \/ OrchExhausted
    \/ OrchProviderRaises
    \/ OrchFinal
    \/ OrchToolCalls
    \/ TaskUpdateModel
    \/ TaskShell
    \/ TaskShellReturns
    \/ TaskDMail
    \/ TaskDispatch
    \/ OrchStepReturns
    \/ OrchDMail
    \/ SubExhausted
    \/ SubProviderRaises
    \/ SubFinal
    \/ SubUpdateModel
    \/ SubDMail
    \/ SubDMailUnknownCheckpoint
    \/ SessionCancelled
    \/ CliCloses
    \/ TuiCloses

\* no completion is asked for
RetryIdle == attempts = [pc |-> "unused"]

AuxIdle == BufIdle /\ TruncIdle /\ RetryIdle /\ ModelIdle /\ OrchIdle

\* a new buffer that is appended to, read, searched and cleared (as many
\* clears as text appends)
BufInit ==
    /\ \E max_lines \in 1..MaxBufLines : buffer = RollingBuffer(max_lines)
    /\ written = <<>>
    /\ bufOp = [op |-> "init", result |-> None]
    /\ bufBudget = [appends |-> MaxBufAppends, texts |-> MaxBufTexts,
                    clears |-> MaxBufTexts]
    /\ call = NoCall
    /\ waiter = NoWaiter

\* the buffer of a new session, which the reader task appends to
MatchInit ==
    /\ \E max_lines \in 1..MaxBufLines : buffer = RollingBuffer(max_lines)
    /\ written = <<>>
    /\ bufOp = [op |-> "init", result |-> None]
    /\ bufBudget = [appends |-> MatchMaxAppends, texts |-> MaxBufTexts, clears |-> 0]
    /\ call = NoCall
    /\ waiter = NoWaiter

\* the pairs of lines append_text is given: the cleaned lines, each with the
\* raw line at its place or the empty line
TextPairs(text, raw_text) ==
    LET cleaned_lines == SplitLines(text)
        raw_lines == SplitLines(IF ~raw_text.is_none /\ raw_text.value # <<>>
                                THEN raw_text.value ELSE text)
    IN  [i \in 1..Len(cleaned_lines) |->
            <<cleaned_lines[i], IF i <= Len(raw_lines) THEN raw_lines[i] ELSE <<>>>>]

\* the lines a waiting send_and_match call should get to see
Since(pairs) ==
    IF call.pc = "waiting"
    THEN [call EXCEPT !.since = @ \o [i \in 1..Len(pairs) |-> pairs[i][1]]]
    ELSE call

BufAppend ==
    \E line \in CleanLines, raw_line \in RawLines :
        /\ bufBudget.appends > 0
        /\ bufBudget' = [bufBudget EXCEPT !.appends = @ - 1]
        /\ buffer' = buffer_append(buffer, line, raw_line)
        /\ LET pair == <<line, IF raw_line.is_none THEN line ELSE raw_line.value>>
           IN  /\ written' = Append(written, pair)
               /\ call' = Since(<<pair>>)
        /\ bufOp' = [op |-> "append", result |-> None]
        /\ UNCHANGED <<ctxVars, wireVars, loopVars, ptyVars, truncVars, retryVars, modelVars, orchVars, waiter>>

BufAppendText ==
    \E t \in Texts :
        /\ bufBudget.texts > 0
        /\ bufBudget' = [bufBudget EXCEPT !.texts = @ - 1]
        /\ buffer' = buffer_append_text(buffer, t[1], t[2])
        /\ written' = written \o TextPairs(t[1], t[2])
        /\ call' = Since(TextPairs(t[1], t[2]))
        /\ bufOp' = [op |-> "append_text", result |-> None]
        /\ UNCHANGED <<ctxVars, wireVars, loopVars, ptyVars, truncVars, retryVars, modelVars, orchVars, waiter>>

BufRead ==
    \E offset \in 0..buffer.max_lines, limit \in ReadLimits :
        /\ bufOp' = [op |-> "read", result |-> buffer_read(buffer, offset, limit)]
        /\ UNCHANGED <<buffer, written, bufBudget, call,
                       ctxVars, wireVars, loopVars, ptyVars, truncVars, retryVars, modelVars, orchVars, waiter>>

BufSearch ==
    \E compiled \in Patterns, limit \in SearchLimits :
        /\ bufOp' = [op |-> "search", result |-> buffer_search(buffer, compiled, limit)]
        /\ UNCHANGED <<buffer, written, bufBudget, call,
                       ctxVars, wireVars, loopVars, ptyVars, truncVars, retryVars, modelVars, orchVars, waiter>>

BufClear ==
    /\ bufBudget.clears > 0
    /\ bufBudget' = [bufBudget EXCEPT !.clears = @ - 1]
    /\ buffer' = buffer_clear(buffer)
    /\ written' = <<>>
    /\ bufOp' = [op |-> "clear", result |-> None]
    /\ UNCHANGED <<call, ctxVars, wireVars, loopVars, ptyVars, truncVars, retryVars, modelVars, orchVars, waiter>>

BufNext ==
    \/ BufAppend
    \/ BufAppendText
    \/ BufRead
    \/ BufSearch
    \/ BufClear

(***************************************************************************)
(* pty/buffer.py: wait_for_data.  The event loop runs the callbacks that   *)
(* append handed to it one at a time, between the steps of the coroutines. *)
(***************************************************************************)
\* a new buffer, with an event loop attached (as PTYSession.start does) or
\* without one
WaitInit ==
    /\ \E max_lines \in 1..MaxBufLines, attached \in BOOLEAN :
          buffer = IF attached THEN attach_loop(RollingBuffer(max_lines))
                   ELSE RollingBuffer(max_lines)
    /\ written = <<>>
    /\ bufOp = [op |-> "init", result |-> None]
    /\ bufBudget = [appends |-> WaitMaxAppends, texts |-> MaxBufTexts, clears |-> 0]
    /\ call = NoCall
    /\ waiter = NoWaiter

\* wait_for_data returns r
wait_returns(w, b, r) ==
    [w EXCEPT !.pc = "idle", !.result = r, !.before = w.seen, !.at = total_lines(b),
              !.seen = IF r = "true" THEN total_lines(b) ELSE @]

\* the loop runs one scheduled _data_event.set
LoopRunsSet ==
    /\ buffer.scheduled > 0
    /\ buffer' = [buffer EXCEPT !.scheduled = @ - 1, !._data_event = "set"]
    /\ UNCHANGED <<written, bufOp, bufBudget, call, waiter,
                   ctxVars, wireVars, loopVars, ptyVars, truncVars, retryVars, modelVars, orchVars>>

\* buffer.py 81-88: a consumer calls wait_for_data
WaitCall ==
    /\ waiter.pc = "idle"
    /\ waiter.calls < MaxWaits
    /\ waiter' = [waiter EXCEPT !.pc = "waiting", !.calls = @ + 1]
    /\ UNCHANGED <<buffer, written, bufOp, bufBudget, call,
                   ctxVars, wireVars, loopVars, ptyVars, truncVars, retryVars, modelVars, orchVars>>

\* buffer.py 86-89: no loop attached: sleep briefly, return True
WaitFallback ==
    /\ waiter.pc = "waiting"
    /\ buffer._data_event = "None"
    /\ waiter' = wait_returns(waiter, buffer, "true")
    /\ UNCHANGED <<buffer, written, bufOp, bufBudget, call,
                   ctxVars, wireVars, loopVars, ptyVars, truncVars, retryVars, modelVars, orchVars>>

\* buffer.py 91-94: the event is set: clear it, return True
WaitWake ==
    /\ waiter.pc = "waiting"
    /\ buffer._data_event = "set"
    /\ buffer' = [buffer EXCEPT !._data_event = "clear"]
    /\ waiter' = wait_returns(waiter, buffer, "true")
    /\ UNCHANGED <<written, bufOp, bufBudget, call,
                   ctxVars, wireVars, loopVars, ptyVars, truncVars, retryVars, modelVars, orchVars>>

\* buffer.py 95-96: the timeout passes with the event not set
WaitTimeout ==
    /\ waiter.pc = "waiting"
    /\ buffer._data_event = "clear"
    /\ waiter' = wait_returns(waiter, buffer, "false")
    /\ UNCHANGED <<buffer, written, bufOp, bufBudget, call,
                   ctxVars, wireVars, loopVars, ptyVars, truncVars, retryVars, modelVars, orchVars>>

WaitNext ==
    \/ BufAppend
    \/ BufAppendText
    \/ LoopRunsSet
    \/ WaitCall
    \/ WaitFallback
    \/ WaitWake
    \/ WaitTimeout

(***************************************************************************)
(* pty/session.py: send_and_match on the session's buffer                  *)
(***************************************************************************)
\* the first line of lines that the pattern is found in, or 0
FirstMatch(lines, found) ==
    LET hits == {i \in 1..Len(lines) : lines[i] \in found}
    IN  IF hits = {} THEN 0 ELSE CHOOSE i \in hits : \A j \in hits : i <= j

\* session.py 199-204: the buffer's line count is noted, the input written
\* and the pattern compiled
SamStart ==
    \E compiled \in {p \in Patterns : p.valid} :
        /\ call.pc = "idle"
        /\ call' = [call EXCEPT !.pc = "waiting", !.before = line_count(buffer),
                                !.compiled = compiled.found]
        /\ UNCHANGED <<buffer, written, bufOp, bufBudget,
                       ctxVars, wireVars, loopVars, ptyVars, truncVars, retryVars, modelVars, orchVars, waiter>>

\* session.py 210-216: a turn of the loop that finds the pattern in the
\* lines read from offset before
SamMatch ==
    LET current == line_count(buffer)
        new_lines == buffer_read(buffer, call.before, current - call.before)
        i == FirstMatch(new_lines, call.compiled)
    IN  /\ call.pc = "waiting"
        /\ current > call.before
        /\ i > 0
        /\ call' = [call EXCEPT !.pc = "done", !.by = "match",
                                !.result = JoinLines(SubSeq(new_lines, 1, i))]
        /\ UNCHANGED <<buffer, written, bufOp, bufBudget,
                       ctxVars, wireVars, loopVars, ptyVars, truncVars, retryVars, modelVars, orchVars, waiter>>

\* session.py 221-224: the deadline has passed
SamTimeout ==
    LET current == line_count(buffer)
        new_lines == buffer_read(buffer, call.before, current - call.before)
    IN  /\ call.pc = "waiting"
        /\ call' = [call EXCEPT !.pc = "done", !.by = "timeout",
                                !.result = JoinLines(new_lines)]
        /\ UNCHANGED <<buffer, written, bufOp, bufBudget,
                       ctxVars, wireVars, loopVars, ptyVars, truncVars, retryVars, modelVars, orchVars, waiter>>

MatchNext ==
    \/ BufAppend
    \/ BufAppendText
    \/ SamStart
    \/ SamMatch
    \/ SamTimeout

(***************************************************************************)
(* llm/provider.py: opening the provider stream, retried by tenacity.      *)
(***************************************************************************)
STOP_AFTER_ATTEMPT == 3

\* the classes an exception is an instance of
Bases(cls) ==
    CASE cls = "ConnectionError" -> {"ConnectionError", "OSError", "Exception", "BaseException"}
      [] cls = "TimeoutError" -> {"TimeoutError", "OSError", "Exception", "BaseException"}
      [] cls = "FileNotFoundError" -> {"FileNotFoundError", "OSError", "Exception", "BaseException"}
      [] cls = "OSError" -> {"OSError", "Exception", "BaseException"}
      [] cls = "CancelledError" -> {"CancelledError", "BaseException"}
      [] OTHER -> {cls, "Exception", "BaseException"}

\* what one call of litellm.acompletion may do: return the stream, or raise
Completions ==
    {Returned("stream")}
    \cup {Raised([cls |-> c, text |-> "e"]) :
             c \in {"ConnectionError", "TimeoutError", "OSError", "FileNotFoundError",
                    "ValueError", "RuntimeError", "CancelledError"}}

\* retry=retry_if_exception_type((ConnectionError, TimeoutError, OSError))
retry_if_exception_type(e) ==
    Bases(e.cls) \cap {"ConnectionError", "TimeoutError", "OSError"} # {}

\* a stop condition that lets one more attempt through
stop_after_next_attempt(attempt_number) == attempt_number > STOP_AFTER_ATTEMPT

\* stop=stop_after_attempt(3)
stop_after_attempt(attempt_number) == attempt_number >= STOP_AFTER_ATTEMPT

NoRetry == [pc |-> "idle", attempt_number |-> 0, outcomes |-> <<>>,
            outcome |-> Returned(None)]

\* _acompletion_with_retry after an attempt ended with r: a result is
\* returned; an exception is raised to the caller when it is not one to
\* retry or when the attempts are used up (reraise=True); else the call
\* sleeps and tries again
_acompletion_with_retry(a, r) ==
    LET seen == [a EXCEPT !.outcomes = Append(@, r)]
    IN  IF r.kind = "return" THEN [seen EXCEPT !.pc = "returned", !.outcome = r]
        ELSE IF ~retry_if_exception_type(r.exc)
             THEN [seen EXCEPT !.pc = "raised", !.outcome = r]
        ELSE IF stop_after_attempt(a.attempt_number)
             THEN [seen EXCEPT !.pc = "raised", !.outcome = r]
        ELSE [seen EXCEPT !.pc = "sleeping"]

\* a provider whose stream is about to be opened
RetryInit == attempts = NoRetry

\* LiteLLMProvider.stream awaits _acompletion_with_retry
RetryCall ==
    /\ attempts.pc = "idle"
    /\ attempts' = [attempts EXCEPT !.pc = "calling", !.attempt_number = 1]
    /\ UNCHANGED <<ctxVars, wireVars, loopVars, ptyVars, bufVars, truncVars, modelVars, orchVars>>

\* one attempt: litellm.acompletion returns or raises
RetryAttempt ==
    \E r \in Completions :
        /\ attempts.pc = "calling"
        /\ attempts' = _acompletion_with_retry(attempts, r)
        /\ UNCHANGED <<ctxVars, wireVars, loopVars, ptyVars, bufVars, truncVars, modelVars, orchVars>>

\* the wait before the next attempt is over
RetryWake ==
    /\ attempts.pc = "sleeping"
    /\ attempts.attempt_number < MaxAttempts
    /\ attempts' = [attempts EXCEPT !.pc = "calling", !.attempt_number = @ + 1]
    /\ UNCHANGED <<ctxVars, wireVars, loopVars, ptyVars, bufVars, truncVars, modelVars, orchVars>>

RetryNext ==
    \/ RetryCall
    \/ RetryAttempt
    \/ RetryWake

(***************************************************************************)
(* Specifications: each subsystem driven on its own.                       *)
(***************************************************************************)
InitCtx == CtxInit /\ WireInit /\ LoopIdle /\ PtyIdle /\ AuxIdle

SpecCtx == InitCtx /\ [][CtxNext]_vars

InitIds == IdsInit /\ WireInit /\ LoopIdle /\ PtyIdle /\ AuxIdle

SpecIds == InitIds /\ [][CtxNext]_vars

InitMgmt == MgmtInit /\ WireInit /\ LoopIdle /\ PtyIdle /\ AuxIdle

MgmtNext ==
    \/ CtxAppend
    \/ CtxGrow
    \/ CtxCheckpoint
    \/ CtxRevertTo
    \/ CtxRewrite
    \/ CtxPrune
    \/ CtxCompact
    \/ CtxAutoManage

SpecMgmt == InitMgmt /\ [][MgmtNext]_vars

SpecWire == InitCtx /\ [][WireNext]_vars

SpecWireApi == InitCtx /\ [][WireApiNext]_vars

InitLoop == LoopInit /\ WireInit /\ PtyIdle /\ AuxIdle

SpecLoop == InitLoop /\ [][LoopNext]_vars

\* the event loop goes on running the loop's coroutine and the tasks of its
\* tools, and every provider call and tool call comes to an end
InitLoopFair == FairLoopInit /\ WireInit /\ PtyIdle /\ AuxIdle

SpecLoopFair == InitLoopFair /\ [][LoopNext]_vars /\ WF_LoopProgress(LoopNext)

InitCancel == CancelInit /\ WireInit /\ PtyIdle /\ AuxIdle

SpecCancel == InitCancel /\ [][CancelNext]_vars

InitPty == CtxInit /\ WireInit /\ LoopIdle /\ PtyInit /\ AuxIdle

SpecPty == InitPty /\ [][PtyNext]_vars

InitPtyFull == CtxInit /\ WireInit /\ LoopIdle /\ PtyFullInit /\ AuxIdle

SpecPtyFull == InitPtyFull /\ [][PtyFullNext]_vars

InitSession == CtxInit /\ WireInit /\ LoopIdle /\ SessionInit /\ AuxIdle

InitBuf == CtxInit /\ WireInit /\ LoopIdle /\ PtyIdle /\ BufInit /\ TruncIdle /\ RetryIdle /\ ModelIdle /\ OrchIdle

SpecBuf == InitBuf /\ [][BufNext]_vars

InitWait == CtxInit /\ WireInit /\ LoopIdle /\ PtyIdle /\ WaitInit /\ TruncIdle /\ RetryIdle /\ ModelIdle /\ OrchIdle

SpecWait == InitWait /\ [][WaitNext]_vars

InitMatch == CtxInit /\ WireInit /\ LoopIdle /\ PtyIdle /\ MatchInit /\ TruncIdle /\ RetryIdle /\ ModelIdle /\ OrchIdle

SpecMatch == InitMatch /\ [][MatchNext]_vars

InitTrunc == CtxInit /\ WireInit /\ LoopIdle /\ PtyIdle /\ BufIdle /\ TruncInit /\ RetryIdle /\ ModelIdle /\ OrchIdle

SpecTrunc == InitTrunc /\ [][TruncNext]_vars

InitRetry == CtxInit /\ WireInit /\ LoopIdle /\ PtyIdle /\ BufIdle /\ TruncIdle /\ RetryInit /\ ModelIdle /\ OrchIdle

SpecRetry == InitRetry /\ [][RetryNext]_vars

InitModel == CtxInit /\ WireInit /\ LoopIdle /\ PtyIdle /\ BufIdle /\ TruncIdle /\ RetryIdle /\ ModelInit /\ OrchIdle

SpecModel == InitModel /\ [][ModelNext]_vars

InitOrch == CtxInit /\ LoopIdle /\ PtyIdle /\ BufIdle /\ TruncIdle /\ RetryIdle /\ ModelIdle /\ OrchInit

SpecOrch == InitOrch /\ [][OrchNext]_vars

SpecSession == InitSession /\ [][SessionNext]_vars

(***************************************************************************)
(* Claims about the Context store.                                         *)
(***************************************************************************)

\* C2: after any sequence of append, grow, checkpoint, revert_to and rewrite,
\* restoring a new Context from the log file yields the same message
\* sequence and the same checkpoint map (the same ids, each mapped to the
\* same message index).
C2_LogReplayIsIdentity ==
    /\ restore(disk).messages = ctx.messages
    /\ restore(disk).checkpoints = ctx.checkpoints

\* C3: after revert_to(id) returns, the in-memory message list and the
\* message list replayed from the log file both equal the message list as
\* it stood when checkpoint id was created, whatever operations (appends,
\* steps, later checkpoints, pruning, compaction) happened in between.
C3_RevertRestoresCheckpointState ==
    (lastOp.op = "revert_to" /\ lastOp.ok) =>
        /\ ctx.messages = snap[lastOp.arg]
        /\ restore(disk).messages = snap[lastOp.arg]

(***************************************************************************)
(* Claims about the wire.                                                  *)
(***************************************************************************)

\* C9: for each subscriber queue, the sequence of events it yields is exactly
\* the sequence of events passed to send while the queue was subscribed and
\* the wire was open: same order, none lost, none duplicated.
C9_QueueYieldsSentEvents ==
    \A q \in DOMAIN queues : Events(taken[q] \o queues[q]) = due[q]

\* two events got from one queue in the order they were sent, while another
\* queue, subscribed for another stretch, is due something else
C9_Witness ==
    \E q1, q2 \in DOMAIN queues :
        /\ Len(Events(taken[q1])) = 2
        /\ taken[q1][1] # taken[q1][2]
        /\ due[q1] # due[q2]

\* C10: after close() has been called, every later send and every
\* convenience send_* call leaves every subscriber queue unchanged.
C10_ClosedWireDrop ==
    [][(closes > 0 /\ sends'.calls = sends.calls + 1) => queues' = queues]_vars

\* a send was called after close() on a wire that has subscribers
C10_Witness == closes > 0 /\ sends.after_close > 0

(***************************************************************************)
(* Claims about the agent loop.                                            *)
(***************************************************************************)

\* C1: for every step whose assistant message carries tool calls
\* c0..c(n-1), the context grows by the assistant message followed by
\* exactly n tool messages, the i-th carrying the id and result of call ci,
\* whatever order the concurrently running tools finish in.
C1_GrowInCallOrder ==
    [][(loop.pc = "gather" /\ tally'.grown = tally.grown + 1) =>
          LET n == Len(ctx.messages)
              k == Len(cur.calls)
          IN  /\ Len(ctx'.messages) = n + 1 + k
              /\ Prefix(ctx'.messages, n) = ctx.messages
              /\ ctx'.messages[n + 1] = cur.message
              /\ \A i \in 1..k :
                    /\ ctx'.messages[n + 1 + i].role = "tool"
                    /\ ctx'.messages[n + 1 + i].parts[1].tool_call_id = cur.calls[i].id
                    /\ ctx'.messages[n + 1 + i] = cur.tasks[i].value]_vars

\* a step has grown the context after its second tool finished first
C1_Witness ==
    /\ tally.last = "grown"
    /\ loop.pc = "while"
    /\ cur.order = <<2, 1>>
    /\ cur.tasks[1].value # cur.tasks[2].value
    /\ ctx.messages[Len(ctx.messages)] = cur.tasks[2].value

\* the revert signal of the step that the loop has just handled
HandledDMail == cur.tasks[RaisedFirst(cur)].exc

\* C4: when a step raises the revert signal for an existing checkpoint, the
\* loop calls on_dmail, reverts the context to that checkpoint and appends
\* exactly one system message carrying the D-Mail text; neither the
\* assistant message nor any tool result of the aborted step is appended,
\* and the loop goes on to another step.
C4_DMailRevertsAndGoesOn ==
    (loop.pc = "while" /\ tally.last = "revert") =>
        /\ tally.on_dmail = <<HandledDMail.checkpoint_id, HandledDMail.message>>
        /\ ctx.messages = snap[HandledDMail.checkpoint_id]
                          \o <<MessageSystem(DMailNote(HandledDMail.message))>>
        /\ loop.step_no < agent.max_steps

\* C5: a step that ends in a D-Mail revert does not consume step budget:
\* the step counter counts the steps that were not reverted, and a loop that
\* returns MAX_STEPS has run max_steps steps that were not reverted.
C5_RevertKeepsStepBudget ==
    /\ (loop.pc = "while" => loop.step_no = tally.grown)
    /\ (loop.outcome = "MAX_STEPS" => tally.grown = agent.max_steps)

\* C6: agent_loop always ends by returning COMPLETE, MAX_STEPS or ERROR and
\* never propagates an exception to its caller.
C6_LoopNeverRaises ==
    /\ loop.pc # "raised"
    /\ (loop.pc = "returned" => loop.outcome \in {"COMPLETE", "MAX_STEPS", "ERROR"})

\* C7: agent_loop returns COMPLETE at the first step whose assistant message
\* has no tool calls, after that message has been appended to the context,
\* and runs no further step; if every step within the budget carries tool
\* calls and none fails, it returns MAX_STEPS.
C7_CompleteAtFirstFinalMessage ==
    /\ (tally.nocalls > 0 =>
            /\ loop.pc = "returned"
            /\ loop.outcome = "COMPLETE"
            /\ tally.nocalls = 1
            /\ tally.last = "grown"
            /\ tool_calls(cur.message) = <<>>
            /\ ctx.messages[Len(ctx.messages)] = cur.message)
    /\ (loop.outcome = "COMPLETE" => tally.nocalls = 1)
    /\ (loop.pc \in {"returned", "raised"} /\ tally.nocalls = 0 /\ tally.errors = 0
            => loop.outcome = "MAX_STEPS" /\ loop.step_no = agent.max_steps)

\* the loop returned COMPLETE at its second step
C7_Witness ==
    /\ loop.outcome = "COMPLETE"
    /\ tally.steps = 2
    /\ loop.step_no < agent.max_steps + 1

\* execute of this call is reached and raises the revert signal
RaisesRevert(tc) == Executes(tc) /\ tc.name = <<"send_dmail">>

\* C8: a revert signal raised inside a tool's execute always reaches the
\* agent loop that dispatched the tool: the task of the call ends with the
\* signal, never with an error tool result, and the step ends in the loop's
\* handler of the signal, also when sibling calls are still running or fail.
C8_RevertSignalReachesLoop ==
    /\ \A i \in 1..Len(cur.tasks) :
          (cur.tasks[i].kind # "pending" /\ RaisesRevert(cur.calls[i])) =>
              /\ cur.tasks[i].kind = "raise"
              /\ cur.tasks[i].exc =
                    BackToTheFuture(cur.calls[i].arguments["checkpoint_id"],
                                    cur.calls[i].arguments["message"])
    /\ (loop.pc # "gather"
        /\ \E i \in 1..Len(cur.tasks) :
              cur.tasks[i].kind # "pending" /\ RaisesRevert(cur.calls[i])) =>
          /\ tally.last \in {"revert", "revert_raised"}
          /\ tally.on_dmail = <<HandledDMail.checkpoint_id, HandledDMail.message>>

\* the loop handled the signal of one call while a sibling call had failed
\* and, in another step, while a sibling was still running
C8_Witness ==
    /\ tally.last = "revert"
    /\ Len(cur.tasks) = 2
    /\ cur.tasks[2].kind = "raise"
    /\ cur.tasks[1].kind = "return"
    /\ cur.tasks[1].value.parts[1].is_error
    /\ orphans > 0

\* how many times the sentinel was put on this queue
Sentinels(q) == Len(SelectSeq(taken[q] \o queues[q], LAMBDA x : x.type = "None"))

\* C11: over any sequence of subscribe, send and close calls, including
\* close being called more than once, each subscriber receives the terminal
\* sentinel exactly once: no queue is ever given a second sentinel, and
\* every queue subscribed when close() was called has been given one.
C11_SentinelExactlyOnce ==
    \A q \in DOMAIN queues :
        /\ Sentinels(q) <= 1
        /\ (q \in present => Sentinels(q) = 1)

(***************************************************************************)
(* Claims about context management.                                        *)
(***************************************************************************)

\* C12: after auto_manage_context returns, whatever action it reports
\* (none, pruned, compacted, pruned+compacted), the messages replayed from
\* the context's log file equal the in-memory message list.
C12_ManagedLogEqualsMemory ==
    [][(lastOp'.op = "auto_manage_context" /\ lastOp'.ok
        /\ restore(disk).messages = ctx.messages)
       => restore(disk').messages = ctx'.messages]_vars

\* C13: within one Context, every id returned by checkpoint() is strictly
\* greater than every id returned before it, for any interleaving with
\* append, revert_to and rewrite: a revert never makes an id be issued again.
\* (DOMAIN snap is the set of ids checkpoint() has returned so far.)
C13_CheckpointIdsIncrease ==
    [][lastOp'.op = "checkpoint" => \A k \in DOMAIN snap : k < lastOp'.arg]_vars

\* checkpoint() has just returned 2 after a revert dropped checkpoint 1
C13_Witness ==
    /\ lastOp.op = "checkpoint"
    /\ lastOp.arg = 2
    /\ DOMAIN ctx.checkpoints = {0, 2}
    /\ DOMAIN snap = {0, 1, 2}

\* the tool-call ids of the assistant messages before position i
EarlierCallIds(messages, i) ==
    UNION {{messages[j].parts[k].id :
              k \in {k \in 1..Len(messages[j].parts) :
                       messages[j].parts[k].type = "tool_call"}} :
           j \in {j \in 1..(i - 1) : messages[j].role = "assistant"}}

\* C14: in an agent's context, every tool message's tool_call_id matches a
\* tool_call of an earlier assistant message in the same context, after any
\* sequence of loop steps, D-Mail reverts, pruning and compaction.
C14_ToolResultsHaveCalls ==
    \A i \in 1..Len(ctx.messages) :
        ctx.messages[i].role = "tool" =>
            \A k \in 1..Len(ctx.messages[i].parts) :
                ctx.messages[i].parts[k].type = "tool_result" =>
                    ctx.messages[i].parts[k].tool_call_id
                        \in EarlierCallIds(ctx.messages, i)

\* C15: an agent loop whose agent declares a non-empty allowed-tools list
\* never executes a tool outside that list, even when the model emits a call
\* naming another tool that is registered in the registry handed to the loop.
C15_OnlyAllowedToolsExecute ==
    agent.tools # <<>> =>
        \A i \in 1..Len(cur.tasks) :
            (cur.tasks[i].kind # "pending" /\ Executes(cur.calls[i])) =>
                cur.calls[i].name \in tools_specs(agent)

\* the task ended with a tool result message for this call
YieldsResult(task, tc) ==
    /\ task.kind = "return"
    /\ task.value.role = "tool"
    /\ Len(task.value.parts) = 1
    /\ task.value.parts[1].type = "tool_result"
    /\ task.value.parts[1].tool_call_id = tc.id

BlobSatisfiesSchema(part) ==
    /\ part.arguments # <<>>
    /\ part.arguments[1].json = "object"
    /\ model_validate(part.name, part.arguments[1].value)

\* C17: for every tool call whose argument blob does not satisfy the tool's
\* parameter schema, whether the blob is well-formed JSON or not, dispatch
\* returns an error result and the tool's execute is not invoked.
C17_InvalidArgumentsNeverExecute ==
    \A i \in 1..Len(cur.tasks) :
        LET part == SelectParts(cur.message.parts, "tool_call")[i]
        IN  (/\ cur.tasks[i].kind # "pending"
             /\ part.name \in RegisteredTools
             /\ ~BlobSatisfiesSchema(part)) =>
                /\ ~Executes(cur.calls[i])
                /\ YieldsResult(cur.tasks[i], cur.calls[i])
                /\ cur.tasks[i].value.parts[1].is_error = TRUE

\* the message list when the step that was cancelled began (its checkpoint)
AtStepBegin == snap[ctx.counter - 1]

C19_CleanupLeavesNothingAlive ==
    ptyOp.op = "cleanup" =>
        /\ \A session_id \in DOMAIN ptys :
              /\ ptys[session_id].status # "running"
              /\ ~ptys[session_id].leader
              /\ ~ptys[session_id].others
        /\ cleanup(manager, ptys) = MP(manager, ptys)

\* the keys of the manager's map
Held(m) == {m[i] : i \in 1..Len(m)}

\* the session of the map that was registered earliest (ids are issued in
\* the order of registration)
Earliest(m) == CHOOSE k \in Held(m) : \A j \in Held(m) : k <= j

StatusPaths ==
    {<<"running">>, <<"running", "killing">>, <<"running", "killing", "killed">>,
     <<"running", "exited">>}

\* C21: the status of a started session only changes along running ->
\* killing -> killed or running -> exited, and killed and exited are never
\* left, however kill, the reader task and wait_for_exit interleave
C21_StatusPath ==
    \A session_id \in DOMAIN ptys :
        /\ ptys[session_id].trail \in StatusPaths
        /\ ptys[session_id].status = ptys[session_id].trail[Len(ptys[session_id].trail)]

\* a killed session whose exit was then waited for, next to an exited one
C21_Witness ==
    /\ \E session_id \in DOMAIN ptys :
        /\ ptys[session_id].status = "killed"
        /\ ptyOp = Op("wait_for_exit", session_id, TRUE)
    /\ \E session_id \in DOMAIN ptys : ptys[session_id].status = "exited"

\* C22: on_exit is called exactly once for a session whose process died on
\* its own and never for a session ended by kill
C22_OnExitExactlyOnce ==
    \A session_id \in DOMAIN ptys :
        /\ ptys[session_id].status = "exited" => ptys[session_id].on_exit = 1
        /\ ptys[session_id].status = "killed" => ptys[session_id].on_exit = 0

\* C23: a killed or exited session has its master fd closed and its process
\* reaped
C23_EndedSessionReleased ==
    \A session_id \in DOMAIN ptys :
        ptys[session_id].status \in {"killed", "exited"}
            => /\ ptys[session_id].master_fd = "closed"
               /\ ptys[session_id].reaped

(***************************************************************************)
(* pty/buffer.py: the rolling buffer                                       *)
(***************************************************************************)
\* the last n items of a sequence, or all of it
LastN(seq, n) == IF Len(seq) > n THEN SubSeq(seq, Len(seq) - n + 1, Len(seq)) ELSE seq

\* C24: the cleaned and the raw track hold the same number of lines, at most
\* max_lines, whatever appends, text appends, clears and reads have run; the
\* buffer holds the last min(n, max_lines) of the n lines appended since it
\* was made or cleared, in append order, each raw line next to its cleaned
\* line
C24_TracksInStep ==
    LET kept == LastN(written, buffer.max_lines)
    IN  /\ Len(buffer._lines) = Len(buffer._raw_lines)
        /\ Len(buffer._lines) <= buffer.max_lines
        /\ buffer._lines = [i \in 1..Len(kept) |-> kept[i][1]]
        /\ buffer._raw_lines = [i \in 1..Len(kept) |-> kept[i][2]]

\* more lines than the buffer holds were appended, the last ones by
\* append_text, and a raw line differs from its cleaned line
C24_Witness ==
    /\ Len(written) > buffer.max_lines
    /\ buffer.max_lines > 1
    /\ bufOp.op = "append_text"
    /\ \E i \in 1..Len(buffer._lines) : buffer._lines[i] # buffer._raw_lines[i]

\* C25: total_lines never decreases, whatever sequence of append,
\* append_text, read, search and clear is run
C25_TotalLinesNeverDecreases ==
    [][total_lines(buffer') >= total_lines(buffer)]_vars

(***************************************************************************)
(* tool/truncation.py: what the model gets to see of a tool's output       *)
(***************************************************************************)
NumLines(text) == Len(SplitLines(text))

\* the lines of the notice: one, and one more when the output was saved
NoticeLines == IF truncIn.save_full THEN 2 ELSE 1

WithinLimits ==
    \/ truncIn.text = <<>>
    \/ /\ NumLines(truncIn.text) <= truncIn.max_lines
       /\ Bytes(truncIn.text) <= truncIn.max_bytes

\* what follows the notice in the content
Body ==
    LET lines == SplitLines(truncOut.content)
    IN  JoinLines(SubSeq(lines, NoticeLines + 1, Len(lines)))

\* the notice with the newline that ends it
Notice ==
    LET lines == SplitLines(truncOut.content)
    IN  JoinLines(SubSeq(lines, 1, NoticeLines)) \o <<"\n">>

IsSuffix(s, t) == Len(s) <= Len(t) /\ s = SubSeq(t, Len(t) - Len(s) + 1, Len(t))

\* C27: whenever the output was shortened, for its lines or for its bytes,
\* the body after the notice is a suffix of the output
C27_BodyIsSuffix ==
    (truncOut.done /\ ~WithinLimits) => IsSuffix(Body, truncIn.text)

(***************************************************************************)
(* llm/provider.py: the retries of _acompletion_with_retry                 *)
(***************************************************************************)
\* a connection, timeout or OS error
Transient(r) ==
    /\ r.kind = "raise"
    /\ r.exc.cls \in {"ConnectionError", "TimeoutError", "OSError", "FileNotFoundError"}

\* C28: the stream is opened at most 3 times; an attempt is repeated only
\* after a connection, timeout or OS error; the first success ends the
\* retries and is returned; the third transient failure in a row is raised
\* to the caller; any other exception is raised at once
C28_AtMostThreeAttempts ==
    LET n == Len(attempts.outcomes)
    IN  /\ n <= 3
        /\ attempts.attempt_number <= 3
        /\ \A i \in 1..(n - 1) : Transient(attempts.outcomes[i])
        /\ attempts.pc = "calling" => n = attempts.attempt_number - 1
        /\ attempts.pc = "sleeping"
              => n = attempts.attempt_number /\ n < 3 /\ Transient(attempts.outcomes[n])
        /\ n > 0 /\ attempts.pc \in {"calling", "sleeping"}
              => Transient(attempts.outcomes[n])
        /\ n > 0 /\ attempts.outcomes[n].kind = "return"
              => attempts.pc = "returned" /\ attempts.outcome = attempts.outcomes[n]
        /\ n > 0 /\ attempts.outcomes[n].kind = "raise" /\ ~Transient(attempts.outcomes[n])
              => attempts.pc = "raised" /\ attempts.outcome = attempts.outcomes[n]
        /\ n = 3 /\ Transient(attempts.outcomes[n])
              => attempts.pc = "raised" /\ attempts.outcome = attempts.outcomes[n]
        /\ attempts.pc \in {"returned", "raised"} => attempts.outcome = attempts.outcomes[n]

\* three transient failures in a row have been raised to the caller
C28_Witness ==
    /\ attempts.pc = "raised"
    /\ Len(attempts.outcomes) = 3
    /\ \A i \in 1..3 : Transient(attempts.outcomes[i])
    /\ attempts.outcomes[1] # attempts.outcomes[3]

(***************************************************************************)
(* context/__init__.py: what revert_to leaves of the checkpoints           *)
(***************************************************************************)
\* C29: revert_to(id) removes exactly the checkpoints above id and keeps id
\* and every earlier checkpoint with its recorded index, so that each of
\* them can be reverted to afterwards; revert_to with an id the context does
\* not hold raises and leaves messages, checkpoints and log file as they were
C29_RevertKeepsEarlierCheckpoints ==
    [][\A id \in 0..MaxCheckpointId :
          /\ lastOp' = Op("revert_to", id, TRUE)
                => /\ id \in DOMAIN ctx.checkpoints
                   /\ DOMAIN ctx'.checkpoints = {k \in DOMAIN ctx.checkpoints : k <= id}
                   /\ \A k \in DOMAIN ctx'.checkpoints :
                          ctx'.checkpoints[k] = ctx.checkpoints[k]
                   /\ id \in DOMAIN ctx'.checkpoints
          /\ lastOp' = Op("revert_to", id, FALSE)
                => /\ id \notin DOMAIN ctx.checkpoints
                   /\ ctx' = ctx
                   /\ disk' = disk]_vars

\* a revert has removed a later checkpoint and kept an earlier one
C29_Witness ==
    \E id \in 1..MaxCheckpointId :
        /\ lastOp = Op("revert_to", id, TRUE)
        /\ ctx.counter > id + 1
        /\ DOMAIN ctx.checkpoints = 0..id

(***************************************************************************)
(* pty/session.py: what send_and_match returns                             *)
(***************************************************************************)
\* the lines appended since the input was written, up to the first one the
\* pattern is found in when the call returned for a match
LinesSinceInput ==
    IF call.by = "match"
    THEN SubSeq(call.since, 1, FirstMatch(call.since, call.compiled))
    ELSE call.since

\* C30: send_and_match returns exactly the lines appended to the buffer
\* after the input was written, up to and including the first line that
\* matches, or all of them when the timeout passed without a match, whatever
\* the buffer held when the call started
C30_ReturnsLinesSinceInput ==
    call.pc = "done" => call.result = JoinLines(LinesSinceInput)

(***************************************************************************)
(* pty/buffer.py: what wait_for_data tells its caller                      *)
(***************************************************************************)
\* C31: wait_for_data returns true only if a line was appended after the
\* previous call that returned true (or since the buffer was made), and
\* false when the timeout passes without such an append, with and without
\* an attached event loop
C31_TrueOnlyAfterAppend ==
    waiter.result = "true" => waiter.at > waiter.before

\* C32: a compaction of more than KEEP_RECENT messages that gets a summary
\* leaves exactly one summary system message followed by the previous last
\* KEEP_RECENT messages, and the log then holds these messages; a compaction
\* of at most KEEP_RECENT messages, or one whose summary is empty, leaves the
\* messages and the log as they were.
C32_CompactionKeepsRecent ==
    [][lastOp'.op = "compact_context" =>
        IF Len(ctx.messages) > KEEP_RECENT /\ lastOp'.arg > 0
        THEN /\ Len(ctx'.messages) = KEEP_RECENT + 1
             /\ ctx'.messages[1].role = "system"
             /\ Suffix(ctx'.messages, KEEP_RECENT) = Suffix(ctx.messages, KEEP_RECENT)
             /\ restore(disk').messages = ctx'.messages
             /\ Len(disk'.lines) = Len(ctx'.messages) + Cardinality(DOMAIN ctx'.checkpoints)
        ELSE ctx'.messages = ctx.messages /\ disk' = disk]_vars

C32_Witness ==
    /\ lastOp.op = "compact_context"
    /\ lastOp.arg > 0
    /\ Len(ctx.messages) = KEEP_RECENT + 1
    /\ ctx.messages[1].role = "system"
    /\ ctx.messages[KEEP_RECENT + 1] = MessageUser(<<"a">>)

\* the parts that are not thinking parts
WithoutThinking(parts) == SelectSeq(parts, LAMBDA p : p.type # "thinking")

\* new is old, or old with only the content of a long tool result replaced
PrunedPart(old, new) ==
    \/ new = old
    \/ /\ old.type = "tool_result"
       /\ Len(old.content) > PRUNE_THRESHOLD_CHARS
       /\ new.type = "tool_result"
       /\ new.tool_call_id = old.tool_call_id
       /\ new.is_error = old.is_error

\* new is old, or old without its thinking parts and with pruned tool results
PrunedMessage(old, new) ==
    \/ new = old
    \/ /\ new.role = old.role
       /\ Len(new.parts) = Len(WithoutThinking(old.parts))
       /\ \A j \in 1..Len(new.parts) :
             PrunedPart(WithoutThinking(old.parts)[j], new.parts[j])

\* C33: prune_context keeps the number, order and role of the messages and
\* the tool_call_id of every part, leaves the most recent
\* PRUNE_PROTECT_RECENT messages as they were, changes in the older ones only
\* the content of tool results longer than PRUNE_THRESHOLD_CHARS and drops
\* their thinking parts; pruning the result again changes nothing.
C33_PruneFrame ==
    [][lastOp'.op = "prune_context" =>
        LET n == Len(ctx.messages)
        IN  /\ Len(ctx'.messages) = n
            /\ \A i \in 1..n :
                  /\ PrunedMessage(ctx.messages[i], ctx'.messages[i])
                  /\ i > n - PRUNE_PROTECT_RECENT => ctx'.messages[i] = ctx.messages[i]
            /\ ctx'.checkpoints = ctx.checkpoints
            /\ ctx'.counter = ctx.counter
            /\ disk' = disk
            /\ prune_context(ctx') = ctx']_vars

\* a pruning has replaced a long tool result and dropped a thinking part
\* while a recent assistant message keeps its thinking part
C33_Witness ==
    /\ lastOp.op = "prune_context"
    /\ \E i \in 1..Len(ctx.messages) : \E j \in 1..Len(ctx.messages[i].parts) :
          /\ ctx.messages[i].parts[j].type = "tool_result"
          /\ ctx.messages[i].parts[j].content =
                <<"[pruned: ", str(PRUNE_THRESHOLD_CHARS + 1), " chars]">>
    /\ \E i \in 1..Len(ctx.messages) :
          /\ ctx.messages[i].role = "assistant"
          /\ WithoutThinking(ctx.messages[i].parts) = ctx.messages[i].parts
    /\ \E i \in 1..Len(ctx.messages) :
          /\ ctx.messages[i].role = "assistant"
          /\ WithoutThinking(ctx.messages[i].parts) # ctx.messages[i].parts

\* the context that agent_loop was called with
LoopStartContext == IF agent.compact_fn THEN LoopSeedState.c ELSE SeedGoal.c

\* C37: agent_loop calls step at most max_steps times, also when every step
\* ends in a D-Mail, and then comes to an end; with max_steps = 0 it returns
\* MAX_STEPS without a call of step and without a checkpoint.
C37_AtMostMaxSteps ==
    /\ [](/\ tally.steps <= agent.max_steps
          /\ tally.reverts <= tally.steps
          /\ (agent.max_steps <= 0 /\ loop.pc # "while" =>
                /\ loop.pc = "returned"
                /\ loop.outcome = "MAX_STEPS"
                /\ tally.steps = 0
                /\ ctx = LoopStartContext))
    /\ <>(loop.pc \in {"returned", "raised"})

\* every step of a loop with the largest budget ended in a D-Mail revert,
\* and the loop returned MAX_STEPS
C37_Witness ==
    /\ agent.max_steps = FairMaxSteps
    /\ tally.steps = FairMaxSteps
    /\ tally.reverts = FairMaxSteps
    /\ loop.outcome = "MAX_STEPS"

\* C38: every checkpoint of the context records a message index that is at
\* most the current number of messages.
C38_CheckpointIndexInRange ==
    \A k \in DOMAIN ctx.checkpoints : ctx.checkpoints[k] <= Len(ctx.messages)

\* C36: promote_hypothesis on the id of a hypothesis sets that hypothesis to
\* confirmed with confidence 1.0, appends exactly one Finding with its
\* description, address and evidence, returns this Finding, and leaves the
\* observations, the other hypotheses and the earlier findings as they were;
\* on an id that no hypothesis has it returns no finding and leaves the model
\* unchanged.
C36_PromoteHypothesis ==
    [][modelOp'.op = "promote_hypothesis" =>
        LET id == modelOp'.arg
            known == \E i \in 1..Len(model.hypotheses) : model.hypotheses[i].id = id
            i == CHOOSE k \in 0..Len(model.hypotheses) :
                    /\ k > 0 => model.hypotheses[k].id = id
                    /\ \A j \in 1..Len(model.hypotheses) :
                          model.hypotheses[j].id = id => 0 < k /\ k <= j
            old == model.hypotheses[i]
            new == model'.hypotheses[i]
            finding == model'.findings[Len(model'.findings)]
        IN  IF known
            THEN /\ Len(model'.hypotheses) = Len(model.hypotheses)
                 /\ \A j \in 1..Len(model.hypotheses) :
                       j # i => model'.hypotheses[j] = model.hypotheses[j]
                 /\ new.status = "confirmed"
                 /\ new.confidence = "1.0"
                 /\ [new EXCEPT !.status = old.status, !.confidence = old.confidence,
                                !.verified_by = old.verified_by] = old
                 /\ Len(model'.findings) = Len(model.findings) + 1
                 /\ Prefix(model'.findings, Len(model.findings)) = model.findings
                 /\ finding.description = old.description
                 /\ finding.addresses = (IF old.address.is_none THEN <<>>
                                         ELSE <<old.address.value>>)
                 /\ finding.evidence = old.evidence
                 /\ modelOp'.returned = SomeFinding(finding)
                 /\ model'.observations = model.observations
            ELSE model' = model /\ modelOp'.returned = NoFinding]_vars

\* a hypothesis at address 0 was promoted while another hypothesis and an
\* earlier finding were in the model
C36_Witness ==
    /\ modelOp.op = "promote_hypothesis"
    /\ ~modelOp.returned.is_none
    /\ modelOp.returned.value.addresses = <<0>>
    /\ Len(model.findings) = 2
    /\ Len(model.hypotheses) = 2
    /\ \E j \in 1..2 : model.hypotheses[j].status = "proposed"

(***************************************************************************)
(* The session: orchestrator, subagents, wire.                             *)
(***************************************************************************)
\* what the session's subscriber was sent so far
SessionEvents == Events(queues[1])

TaggedWith(event, agent_name) ==
    /\ "agent" \in DOMAIN event.data
    /\ event.data.agent = agent_name

\* how many events of this type and agent are among the first n sent
CountOf(type, agent_name, n) ==
    Cardinality({i \in 1..n : SessionEvents[i].type = type /\ TaggedWith(SessionEvents[i], agent_name)})

\* C34: every event with a subagent's name lies between a SUBAGENT_BEGIN of
\* this agent and its SUBAGENT_END, and every run of a subagent that is over
\* (complete, max steps, error outcome, exception, cancellation) has sent
\* exactly one SUBAGENT_END after its SUBAGENT_BEGIN
C34_SubagentEventsFramed ==
    \A n \in 1..Len(AgentNames) :
        LET a == AgentNames[n]
            runs == {k \in 1..Len(subs) : subs[k].name = a}
            over == {k \in runs : subs[k].pc # "while"}
        IN  /\ \A i \in 1..Len(SessionEvents) :
                  TaggedWith(SessionEvents[i], a) /\ SessionEvents[i].type # "subagent_begin" =>
                      CountOf("subagent_begin", a, i - 1) > CountOf("subagent_end", a, i - 1)
            /\ CountOf("subagent_begin", a, Len(SessionEvents)) = Cardinality(runs)
            /\ CountOf("subagent_end", a, Len(SessionEvents)) = Cardinality(over)

\* C35: when the session's agent loop has returned ERROR and the wire is
\* closed, an ERROR event was sent before the close
C35_ErrorEventBeforeClose ==
    orch.outcome = "ERROR" /\ wire.closed =>
        \E i \in 1..Len(SessionEvents) : SessionEvents[i].type = "error"

\* the context that the loop of agent who works on (0 is the orchestrator)
ContextOf(who) == IF who = 0 THEN orch.context ELSE subs[who].context

\* C39: the contexts of the subagent runs and of the orchestrator are
\* pairwise different objects; a step inside one subagent run (the creation
\* of its context, a checkpoint, a growth, a D-Mail revert, its end) changes
\* no context but this run's, and neither the orchestrator's step counter
\* nor another run's; a step of the orchestrator changes no subagent's
\* context or counter
C39_SubagentContextOwn ==
    [][LET who == orch'.last.who
       IN  /\ \A k \in 1..Len(subs') :
                 /\ subs'[k].context # orch'.context
                 /\ \A j \in 1..Len(subs') : j # k => subs'[j].context # subs'[k].context
           /\ IF who # 0
              THEN /\ \A j \in 1..Len(contexts) :
                         j # subs'[who].context => contexts'[j] = contexts[j]
                   /\ orch'.step_no = orch.step_no
                   /\ orch'.max_steps = orch.max_steps
                   /\ \A j \in 1..Len(subs) : j # who => subs'[j] = subs[j]
                   /\ who <= Len(subs) => subs'[who].step_no \in
                                             {subs[who].step_no, subs[who].step_no + 1}
              ELSE \A k \in 1..Len(subs) :
                       /\ contexts'[subs[k].context] = contexts[subs[k].context]
                       /\ subs'[k].step_no = subs[k].step_no]_vars

\* two subagents ran in the same step of the orchestrator: one took a
\* checkpoint and grew its context, the other has just reverted its own by a
\* D-Mail; each has counted one step of its own, and the orchestrator's
\* context holds the goal and the checkpoint of step 1 as before
C39_Witness ==
    /\ Len(subs) = 2
    /\ orch.last = Act("revert", 2)
    /\ orch.pc = "gather" /\ orch.step_no = 1
    /\ subs[1].step_no = 1 /\ subs[2].step_no = 1
    /\ Len(contexts[subs[1].context].c.messages) = 3
    /\ contexts[subs[2].context].c.messages[2].role = "system"
    /\ DOMAIN contexts[subs[1].context].c.checkpoints = {0}
    /\ contexts[1].c.messages = SeedGoal.c.messages
    /\ contexts[1].c.checkpoints = checkpoint(SeedGoal.c, SeedGoal.d).c.checkpoints

\* C40: a D-Mail revert leaves the knowledge model, the PTY manager and its
\* sessions, the wire and every context but the reverting loop's as they
\* were; the events sent before it are still the first events of the
\* subscriber's queue
C40_RevertChangesOnlyContext ==
    [][orch'.last.act = "revert" =>
        /\ model' = model
        /\ manager' = manager
        /\ ptys' = ptys
        /\ wire' = wire
        /\ Len(queues'[1]) >= Len(queues[1])
        /\ Prefix(queues'[1], Len(queues[1])) = queues[1]
        /\ \A j \in 1..Len(contexts) :
              j # ContextOf(orch'.last.who) => contexts'[j] = contexts[j]
        /\ orch'.step_no = orch.step_no]_vars

\* the orchestrator has just reverted to checkpoint 0 from the step in which
\* update_model recorded an observation and shell spawned a session: the
\* context holds the goal and the note, the observation, the session and the
\* events of the discarded step are there
C40_Witness ==
    /\ orch.last = Act("revert", 0)
    /\ Len(contexts[1].c.messages) = 2
    /\ contexts[1].c.messages[1] = MessageUser(<<"g">>)
    /\ Len(model.observations) = 1
    /\ Len(manager) = 1
    /\ \E i \in 1..Len(SessionEvents) : SessionEvents[i].type = "observation"
    /\ \E i \in 1..Len(SessionEvents) :
          SessionEvents[i].type = "tool_call" /\ SessionEvents[i].data.name = "shell"
    /\ SessionEvents[Len(SessionEvents)].type = "dmail"

====
